---- MODULE Spec2Model ----
(***************************************************************************)
(* GranolaMCP: the MCP tool layer (granola_mcp/mcp/tools.py) over the date *)
(* expression resolver (granola_mcp/utils/date_parser.py).                 *)
(*                                                                         *)
(* One MCPTools instance is modelled together with the record source it    *)
(* reads (the GranolaParser it was constructed with) and the clock.        *)
(* Optional values (Python None / a value) are <<>> / <<v>>.  Text is a    *)
(* sequence of one-character strings, so that substring search, case       *)
(* folding and the date grammars are computed and not assumed.             *)
(* An instant is <<day, second of day>>, day 0 being 2025-01-01.           *)
(***************************************************************************)
EXTENDS Integers, Sequences, FiniteSets, TLC

VARIABLES
    source,       \* what the record source would return on a load (parser.get_meetings())
    fault,        \* how the record source fails at the moment: "none", "unreadable", "malformed"
    cache,        \* MCPTools._meetings_cache: None or Some(list of Meeting)
    now,          \* datetime.datetime.now(cst)
    parserCalls,  \* the parser methods the operation of this step called, in order
    last          \* the execute_tool call of this step: name, arguments and what came out

vars == <<source, fault, cache, now, parserCalls, last>>

------------------------------------------------------------------------------
(* Optional values *)

None == <<>>
Some(v) == <<v>>
Get(o) == o[1]

Min(S) == CHOOSE x \in S : \A y \in S : x <= y
Max(S) == CHOOSE x \in S : \A y \in S : x >= y

------------------------------------------------------------------------------
(* Bounds of the model *)

\* longest list of records the record source holds
MaxLen == 2
\* how many days the clock may advance
MaxTicks == 1

------------------------------------------------------------------------------
(* The records of the model *)

StartDay == 10

Al == <<"A", "l">>
Bo == <<"B", "o">>
Cy == <<"c", "y">>

Segment1 ==
    [text |-> <<"h", "i", " ", "B", "o">>, speaker |-> Some(Al),
     timestamp |-> Some(<<8, 36005>>), start_time |-> Some(5), end_time |-> None]

Transcript1 ==
    [full_text |-> <<"h", "i", " ", "B", "o">>, word_count |-> 2,
     speakers |-> <<Al>>, segments |-> <<Segment1>>, duration |-> Some(1700)]

\* two days before the first "now", with a transcript
M1 ==
    [id |-> "m1", title |-> Some(<<"S", "y", "n", "c">>),
     start_time |-> Some(<<8, 36000>>), duration |-> Some(1800),
     participants |-> <<Al, Bo>>, summary |-> Some(<<"p", "l", "a", "n">>),
     tags |-> <<"weekly">>,
     has_transcript |-> TRUE, transcript |-> Some(Transcript1)]

\* the same id as M1, ten days before the first "now", no transcript
M1old ==
    [id |-> "m1", title |-> Some(<<"O", "l", "d">>),
     start_time |-> Some(<<0, 43200>>), duration |-> Some(0),
     participants |-> <<Al, Bo, Cy>>, summary |-> None,
     tags |-> <<>>,
     has_transcript |-> FALSE, transcript |-> None]

\* no start time; transcript data announced but not parsed into a transcript
M2 ==
    [id |-> "m2", title |-> None,
     start_time |-> None, duration |-> None,
     participants |-> <<>>, summary |-> None,
     tags |-> <<>>,
     has_transcript |-> TRUE, transcript |-> None]

Meetings == {M1, M1old, M2}

RECURSIVE SeqsUpTo(_, _)
\* the lists of at most n members of S
SeqsUpTo(S, n) ==
    IF n = 0 THEN {<<>>}
    ELSE LET shorter == SeqsUpTo(S, n - 1)
         IN  shorter \cup {Append(s, x) : s \in {t \in shorter : Len(t) = n - 1}, x \in S}

\* no record is listed twice (two records may still carry the same id)
Distinct(s) == \A i, j \in DOMAIN s : s[i] = s[j] => i = j

Sources == {s \in SeqsUpTo(Meetings, MaxLen) : Distinct(s)}

MeetingIds == {"m1", "m2", "zz"}

------------------------------------------------------------------------------
(* Text *)

UpperCase == <<"A", "B", "C", "D", "E", "F", "G", "H", "I", "J", "K", "L", "M", "N", "O", "P", "Q", "R", "S", "T", "U", "V", "W", "X", "Y", "Z">>
LowerCase == <<"a", "b", "c", "d", "e", "f", "g", "h", "i", "j", "k", "l", "m", "n", "o", "p", "q", "r", "s", "t", "u", "v", "w", "x", "y", "z">>
DigitChars == <<"0", "1", "2", "3", "4", "5", "6", "7", "8", "9">>
Whitespace == {" ", "\t", "\n"}

Range(s) == {s[i] : i \in DOMAIN s}
IsDigit(c) == c \in Range(DigitChars)
IsAlpha(c) == c \in Range(UpperCase) \cup Range(LowerCase)
DigitVal(c) == (CHOOSE i \in DOMAIN DigitChars : DigitChars[i] = c) - 1

\* str.lower()
lower(s) ==
    [i \in DOMAIN s |->
        IF s[i] \in Range(UpperCase)
        THEN LowerCase[CHOOSE k \in DOMAIN UpperCase : UpperCase[k] = s[i]]
        ELSE s[i]]

\* str.strip()
strip(s) ==
    LET keep == {i \in DOMAIN s : s[i] \notin Whitespace}
    IN  IF keep = {} THEN <<>> ELSE SubSeq(s, Min(keep), Max(keep))

\* needle in haystack
Contains(haystack, needle) ==
    \E i \in 0..(Len(haystack) - Len(needle)) :
        SubSeq(haystack, i + 1, i + Len(needle)) = needle

\* int(digits)
RECURSIVE IntOf(_)
IntOf(digits) ==
    IF digits = <<>> THEN 0
    ELSE 10 * IntOf(SubSeq(digits, 1, Len(digits) - 1)) + DigitVal(digits[Len(digits)])

AllDigits(s) == \A i \in DOMAIN s : IsDigit(s[i])

------------------------------------------------------------------------------
(* Instants: <<day, second of day>>, day 0 = 2025-01-01 (ordinal 739252) *)

SecondsPerDay == 86400
EpochOrdinal == 739252
\* datetime.min is 0001-01-01 00:00:00, datetime.max is in 9999-12-31
MinDay == 1 - EpochOrdinal
MaxDay == 3652059 - EpochOrdinal

Before(a, b) == a[1] < b[1] \/ (a[1] = b[1] /\ a[2] < b[2])
AtMost(a, b) == a = b \/ Before(a, b)

IsLeap(y) == y % 4 = 0 /\ (y % 100 # 0 \/ y % 400 = 0)
DaysInMonth(y, m) ==
    IF m = 2 THEN (IF IsLeap(y) THEN 29 ELSE 28)
    ELSE IF m \in {4, 6, 9, 11} THEN 30 ELSE 31

RECURSIVE DaysBeforeMonth(_, _)
DaysBeforeMonth(y, m) ==
    IF m = 1 THEN 0 ELSE DaysBeforeMonth(y, m - 1) + DaysInMonth(y, m - 1)

\* date(y, m, d).toordinal() - EpochOrdinal
DayOf(y, m, d) ==
    LET p == y - 1
    IN  p * 365 + (p \div 4) - (p \div 100) + (p \div 400)
          + DaysBeforeMonth(y, m) + d - EpochOrdinal

Value(v) == [raised |-> FALSE, exc |-> "", value |-> v]
Raise(exc) == [raised |-> TRUE, exc |-> exc, value |-> <<0, 0>>]

\* reference_time - timedelta(days, seconds); OverflowError outside datetime's range
MinusDelta(t, days, seconds) ==
    LET total == t[2] - seconds
        borrow == IF total < 0 THEN 1 ELSE 0
        r == <<t[1] - days - borrow, total + borrow * SecondsPerDay>>
    IN  IF r[1] < MinDay \/ r[1] > MaxDay THEN Raise("OverflowError") ELSE Value(r)

------------------------------------------------------------------------------
(* granola_mcp/utils/date_parser.py *)

RelativeUnits == {"h", "d", "w", "m", "y"}

\* A faulty variant of Delta, which C18 must notice: "m" is taken for minutes.
DeltaInMinutes(unit, amount) ==
    IF unit = "h" THEN <<amount \div 24, (amount % 24) * 3600>>
    ELSE IF unit = "d" THEN <<amount, 0>>
    ELSE IF unit = "w" THEN <<amount * 7, 0>>
    ELSE IF unit = "m" THEN <<amount \div 1440, (amount % 1440) * 60>>
    ELSE <<amount * 365, 0>>

\* the timedelta of an amount of a unit, as <<days, seconds>>
Delta(unit, amount) ==
    IF unit = "h" THEN <<amount \div 24, (amount % 24) * 3600>>
    ELSE IF unit = "d" THEN <<amount, 0>>
    ELSE IF unit = "w" THEN <<amount * 7, 0>>
    ELSE IF unit = "m" THEN <<amount * 30, 0>>
    ELSE <<amount * 365, 0>>

\* A faulty variant of IsRelativePattern, which C19 must notice: any letter is
\* taken for a unit, ^(\d+)([a-z])$.
IsRelativePatternLenient(s) ==
    Len(s) >= 2 /\ AllDigits(SubSeq(s, 1, Len(s) - 1)) /\ s[Len(s)] \in Range(LowerCase)

\* ^(\d+)([hdwmy])$
IsRelativePattern(s) ==
    Len(s) >= 2 /\ AllDigits(SubSeq(s, 1, Len(s) - 1)) /\ s[Len(s)] \in RelativeUnits

\* the steps of parse_relative_date after the input is normalized
RelativeOf(s, reference_time) ==
    IF ~IsRelativePattern(s) THEN Raise("ValueError")
    ELSE MinusDelta(reference_time,
                    Delta(s[Len(s)], IntOf(SubSeq(s, 1, Len(s) - 1)))[1],
                    Delta(s[Len(s)], IntOf(SubSeq(s, 1, Len(s) - 1)))[2])

parse_relative_date(relative_str, reference_time) ==
    RelativeOf(lower(strip(relative_str)), reference_time)

\* ^\d{4}-\d{2}-\d{2}$
IsDatePattern(s) ==
    /\ Len(s) = 10
    /\ \A i \in {1, 2, 3, 4, 6, 7, 9, 10} : IsDigit(s[i])
    /\ s[5] = "-" /\ s[8] = "-"

\* \d{2}:\d{2}:\d{2}
IsTimePattern(s) ==
    /\ Len(s) = 8
    /\ \A i \in {1, 2, 4, 5, 7, 8} : IsDigit(s[i])
    /\ s[3] = ":" /\ s[6] = ":"

\* ^(\d{4}-\d{2}-\d{2})\s+(\d{2}:\d{2}:\d{2})$
IsDateTimePattern(s) ==
    /\ Len(s) >= 19
    /\ IsDatePattern(SubSeq(s, 1, 10))
    /\ \A i \in 11..(Len(s) - 8) : s[i] \in Whitespace
    /\ IsTimePattern(SubSeq(s, Len(s) - 7, Len(s)))

\* datetime.combine of the fields strptime read, ValueError when one is out of range
Combine(y, m, d, hh, mm, ss) ==
    IF y < 1 \/ m \notin 1..12 THEN Raise("ValueError")
    ELSE IF d \notin 1..DaysInMonth(y, m) THEN Raise("ValueError")
    ELSE IF hh > 23 \/ mm > 59 \/ ss > 59 THEN Raise("ValueError")
    ELSE Value(<<DayOf(y, m, d), hh * 3600 + mm * 60 + ss>>)

\* date_str matches the date pattern and time_str the time pattern at every call
parse_absolute_date(date_str, time_str) ==
    Combine(IntOf(SubSeq(date_str, 1, 4)), IntOf(SubSeq(date_str, 6, 7)),
            IntOf(SubSeq(date_str, 9, 10)), IntOf(SubSeq(time_str, 1, 2)),
            IntOf(SubSeq(time_str, 4, 5)), IntOf(SubSeq(time_str, 7, 8)))

Midnight == <<"0", "0", ":", "0", "0", ":", "0", "0">>

\* the steps of parse_date after the input is stripped
DateOf(s, reference_time) ==
    IF \E i \in DOMAIN s : IsAlpha(s[i]) THEN parse_relative_date(s, reference_time)
    ELSE IF IsDatePattern(s) THEN parse_absolute_date(s, Midnight)
    ELSE IF IsDateTimePattern(s)
         THEN parse_absolute_date(SubSeq(s, 1, 10), SubSeq(s, Len(s) - 7, Len(s)))
    ELSE Raise("ValueError")

parse_date(date_input, reference_time) == DateOf(strip(date_input), reference_time)

EndOfDay == 23 * 3600 + 59 * 60 + 59

\* A faulty variant of EndOf, which C15 must notice: every end is moved to the
\* end of its day, whatever form it was given in.
EndOfAnyForm(parsed, end_date) ==
    IF parsed.raised THEN parsed
    ELSE Value(<<parsed.value[1], EndOfDay>>)

\* end_dt.replace(hour=23, minute=59, second=59) when end_date is a bare date
EndOf(parsed, end_date) ==
    IF parsed.raised THEN parsed
    ELSE IF IsDatePattern(strip(end_date)) THEN Value(<<parsed.value[1], EndOfDay>>)
    ELSE parsed

\* A faulty variant of Ordered, which C17 must notice: the pair is returned as
\* it was resolved.
OrderedAsGiven(start_dt, end_dt) ==
    IF start_dt.raised THEN start_dt
    ELSE IF end_dt.raised THEN end_dt
    ELSE Value(<<start_dt.value, end_dt.value>>)

\* if start_dt > end_dt: swap
Ordered(start_dt, end_dt) ==
    IF start_dt.raised THEN start_dt
    ELSE IF end_dt.raised THEN end_dt
    ELSE IF Before(end_dt.value, start_dt.value)
         THEN Value(<<end_dt.value, start_dt.value>>)
    ELSE Value(<<start_dt.value, end_dt.value>>)

\* end_date is None or Some(text); the result's value is the pair <<start, end>>
get_date_range(start_date, end_date, reference_time) ==
    Ordered(parse_date(start_date, reference_time),
            IF end_date = None THEN Value(reference_time)
            ELSE EndOf(parse_date(Get(end_date), reference_time), Get(end_date)))

------------------------------------------------------------------------------
(* MCPTools._get_meetings *)

Faults == {"none", "unreadable", "malformed"}

\* the parser methods a load calls before it ends, in order
ParserCalls(force_reload, reached) ==
    IF force_reload
    THEN IF reached = "reload" THEN <<"reload">> ELSE <<"reload", "get_meetings">>
    ELSE <<"get_meetings">>

\* A faulty variant of LoadFailure, which C4 must notice: the cache is cleared
\* before the load is tried and stays cleared when the load fails.
LoadFailureClearing(calls) ==
    [raised |-> TRUE, msg |-> <<"Failed to load meetings">>,
     meetings |-> <<>>, cache |-> None, calls |-> calls]

\* A faulty variant of LoadFailure, which C27 must notice: the load that failed
\* leaves an empty list in the cache.
LoadFailureCached(calls) ==
    [raised |-> TRUE, msg |-> <<"Failed to load meetings">>,
     meetings |-> <<>>, cache |-> Some(<<>>), calls |-> calls]

\* except Exception as e: raise MCPToolError(...): nothing was assigned to the cache
LoadFailure(calls) ==
    [raised |-> TRUE, msg |-> <<"Failed to load meetings">>,
     meetings |-> <<>>, cache |-> cache, calls |-> calls]

\* the body of the try: reload if forced, read the records, replace the cache
Load(force_reload) ==
    IF fault = "unreadable" THEN LoadFailure(ParserCalls(force_reload, "reload"))
    ELSE IF fault = "malformed" THEN LoadFailure(ParserCalls(force_reload, "get_meetings"))
    ELSE [raised |-> FALSE, msg |-> <<>>,
          meetings |-> source, cache |-> Some(source),
          calls |-> ParserCalls(force_reload, "get_meetings")]

\* A faulty variant of _get_meetings, which C1 must notice: the cache is never
\* trusted and every call loads the records again.
_get_meetings_uncached(force_reload) == Load(force_reload)

\* What one call of _get_meetings does: the list it returns or the MCPToolError
\* it raises, the cache it leaves, and the parser methods it called.
_get_meetings(force_reload) ==
    IF cache = None \/ force_reload
    THEN Load(force_reload)
    ELSE [raised |-> FALSE, msg |-> <<>>,
          meetings |-> Get(cache), cache |-> cache, calls |-> <<>>]

------------------------------------------------------------------------------
(* Outcomes of an operation *)

Ok(value) == [kind |-> "ok", msg |-> <<>>, value |-> value]
MCPToolError(msg) == [kind |-> "MCPToolError", msg |-> msg, value |-> None]
TypeError == [kind |-> "TypeError", msg |-> <<>>, value |-> None]

\* what a handler hands back to execute_tool
Done(outcome, g) == [outcome |-> outcome, cache |-> g.cache, calls |-> g.calls]

------------------------------------------------------------------------------
(* Helpers on lists *)

\* s[:n] of Python, n any integer
Slice(s, n) ==
    IF n >= 0 THEN SubSeq(s, 1, IF n < Len(s) THEN n ELSE Len(s))
    ELSE SubSeq(s, 1, IF Len(s) + n > 0 THEN Len(s) + n ELSE 0)

RECURSIVE SelectSeqBy(_, _)
\* [m for m in s if Keep(m)], for a set of kept elements
SelectSeqBy(s, kept) ==
    IF s = <<>> THEN <<>>
    ELSE LET rest == SelectSeqBy(Tail(s), kept)
         IN  IF Head(s) \in kept THEN <<Head(s)>> \o rest ELSE rest

\* text is None, or empty: what Python's "if text" rejects
Falsy(o) == o = None \/ Get(o) = <<>>
Truthy(o) == ~Falsy(o)

\* where x goes in a list already sorted by start_time descending: behind every
\* element that is not older (list.sort(reverse=True) is stable)
RECURSIVE InsertDesc(_, _)
InsertDesc(sorted, x) ==
    IF sorted = <<>> THEN <<x>>
    ELSE IF Before(Get(Head(sorted).start_time), Get(x.start_time))
         THEN <<x>> \o sorted
         ELSE <<Head(sorted)>> \o InsertDesc(Tail(sorted), x)

RECURSIVE SortByStartDesc(_)
\* meetings.sort(key=lambda m: m.start_time, reverse=True)
SortByStartDesc(s) ==
    IF s = <<>> THEN <<>>
    ELSE InsertDesc(SortByStartDesc(SubSeq(s, 1, Len(s) - 1)), s[Len(s)])

------------------------------------------------------------------------------
(* The filter pipeline *)

HasStart(m) == m.start_time # None

\* a bound that failed to parse fails the pair; otherwise the pair
Paired(start_date, end_date) ==
    IF start_date.raised THEN start_date
    ELSE IF end_date.raised THEN end_date
    ELSE Value(<<start_date.value, end_date.value>>)

\* A faulty variant of DateBounds, which C13 must notice: a from_date alone
\* leaves the range open above.
DateBoundsOpenAbove(from_date, to_date) ==
    IF Truthy(from_date) /\ Truthy(to_date)
    THEN get_date_range(Get(from_date), to_date, now)
    ELSE IF Truthy(from_date)
    THEN Paired(parse_date(Get(from_date), now), Value(<<MaxDay, EndOfDay>>))
    ELSE Paired(Value(<<MinDay, 0>>), parse_date(Get(to_date), now))

\* the resolved bounds <<start_date, end_date>> of _filter_meetings_by_date, or what
\* resolving them raises
DateBounds(from_date, to_date) ==
    IF Truthy(from_date) /\ Truthy(to_date)
    THEN get_date_range(Get(from_date), to_date, now)
    ELSE IF Truthy(from_date)
    THEN Paired(parse_date(Get(from_date), now), Value(now))
    ELSE Paired(Value(<<MinDay, 0>>), parse_date(Get(to_date), now))

\* A faulty variant of InRange, which C11 must notice: the upper bound is
\* exclusive, start_date <= meeting.start_time < end_date.
InRangeBelowEnd(m, bounds) ==
    /\ HasStart(m)
    /\ AtMost(bounds[1], Get(m.start_time))
    /\ Before(Get(m.start_time), bounds[2])

InRange(m, bounds) ==
    /\ HasStart(m)
    /\ AtMost(bounds[1], Get(m.start_time))
    /\ AtMost(Get(m.start_time), bounds[2])

\* the loop of _filter_meetings_by_date, or the error it makes of what was raised
FilteredBy(meetings, b) ==
    IF b.raised
    THEN IF b.exc = "ValueError"
         THEN [raised |-> "MCPToolError", msg |-> <<"Invalid date format">>,
               meetings |-> <<>>]
         ELSE [raised |-> b.exc, msg |-> <<b.exc>>, meetings |-> <<>>]
    ELSE [raised |-> "", msg |-> <<>>,
          meetings |-> SelectSeqBy(meetings,
                           {m \in Range(meetings) : InRange(m, b.value)})]

\* raised: "" (returns meetings), "MCPToolError" (a ValueError, wrapped) or the
\* exception that passes through
_filter_meetings_by_date(meetings, from_date, to_date) ==
    IF Falsy(from_date) /\ Falsy(to_date)
    THEN [raised |-> "", msg |-> <<>>, meetings |-> meetings]
    ELSE FilteredBy(meetings, DateBounds(from_date, to_date))

_filter_meetings_by_participant(meetings, participant) ==
    SelectSeqBy(meetings,
        {m \in Range(meetings) :
            \E i \in DOMAIN m.participants :
                Contains(lower(m.participants[i]), lower(participant))})

MatchesQuery(m, query_lower) ==
    \/ Truthy(m.title) /\ Contains(lower(Get(m.title)), query_lower)
    \/ Truthy(m.summary) /\ Contains(lower(Get(m.summary)), query_lower)
    \/ /\ m.has_transcript
       /\ m.transcript # None
       /\ Contains(lower(Get(m.transcript).full_text), query_lower)

_search_meetings_by_query(meetings, query) ==
    SelectSeqBy(meetings, {m \in Range(meetings) : MatchesQuery(m, lower(query))})

------------------------------------------------------------------------------
(* Result projections *)

SummaryLimit == 200
Ellipsis == <<".", ".", ".">>

\* a timedelta of zero is false in Python
HasDuration(m) == m.duration # None /\ Get(m.duration) # 0

DurationMinutes(m) == IF HasDuration(m) THEN Some(Get(m.duration) \div 60) ELSE None

TruncatedSummary(m) ==
    IF Truthy(m.summary) /\ Len(Get(m.summary)) > SummaryLimit
    THEN Some(SubSeq(Get(m.summary), 1, SummaryLimit) \o Ellipsis)
    ELSE m.summary

\* the entry of a meeting in a list result
ListEntry(m) ==
    [id |-> m.id, title |-> m.title, start_time |-> m.start_time,
     duration_minutes |-> DurationMinutes(m),
     participant_count |-> Len(m.participants),
     has_transcript |-> m.has_transcript,
     summary |-> TruncatedSummary(m)]

ListEntries(meetings) == [i \in DOMAIN meetings |-> ListEntry(meetings[i])]

------------------------------------------------------------------------------
(* Handlers: each gives the outcome, the cache it leaves and the parser calls *)

\* A faulty variant of RecentFirst, which C24 must notice: the records with a
\* start time in the order of the list, not sorted.
RecentAsLoaded(meetings) ==
    SelectSeqBy(meetings, {m \in Range(meetings) : HasStart(m)})

\* [m for m in meetings if m.start_time], sorted by start_time, most recent first
RecentFirst(meetings) ==
    SortByStartDesc(SelectSeqBy(meetings, {m \in Range(meetings) : HasStart(m)}))

RefreshReport(old_count, new_count, meetings_with_dates) ==
    [status |-> "refreshed",
     previous_count |-> old_count,
     new_count |-> new_count,
     meetings_added |-> new_count - old_count,
     latest_meeting_date |->
         IF meetings_with_dates # <<>> THEN meetings_with_dates[1].start_time ELSE None,
     latest_meeting_title |->
         IF meetings_with_dates # <<>> THEN meetings_with_dates[1].title ELSE None]

\* refresh_cache once _get_meetings(force_reload=True) has returned or raised
Refreshed(old_count, g) ==
    IF g.raised THEN Done(MCPToolError(<<"Failed to refresh cache">> \o g.msg), g)
    ELSE Done(Ok(RefreshReport(old_count, Len(g.meetings), RecentFirst(g.meetings))), g)

\* A faulty variant of refresh_cache, which C2 must notice: the old count is
\* taken after the reload, from the list that has just replaced the cache.
refresh_cache_counting_late ==
    Refreshed(IF fault = "none" THEN Len(source)
              ELSE IF cache # None THEN Len(Get(cache)) ELSE 0,
              _get_meetings(TRUE))

refresh_cache ==
    Refreshed(IF cache # None /\ Get(cache) # <<>> THEN Len(Get(cache)) ELSE 0,
              _get_meetings(TRUE))

RecentReport(results, count, total) ==
    [total_found |-> Len(results),
     meetings |-> results,
     filters_applied |->
         [type |-> "recent_meetings", count_requested |-> count,
          total_meetings_in_cache |-> total]]

\* A faulty variant of Recent, which C3 must notice: the dated records are
\* selected and sorted in the cached list itself.
RecentInPlace(g, count) ==
    IF g.raised THEN Done(MCPToolError(<<"Failed to get recent meetings">> \o g.msg), g)
    ELSE [outcome |-> Ok(RecentReport(ListEntries(Slice(RecentFirst(g.meetings), count)),
                                      count, Len(g.meetings))),
          cache |-> Some(RecentFirst(g.meetings)), calls |-> g.calls]

\* get_recent_meetings once _get_meetings() has returned or raised
Recent(g, count) ==
    IF g.raised THEN Done(MCPToolError(<<"Failed to get recent meetings">> \o g.msg), g)
    ELSE Done(Ok(RecentReport(ListEntries(Slice(RecentFirst(g.meetings), count)),
                              count, Len(g.meetings))), g)

get_recent_meetings(count) == Recent(_get_meetings(FALSE), count)

DefaultWindow == <<"3", "d">>

SearchReport(results, query, from_date, to_date, participant, limit) ==
    [total_found |-> Len(results),
     meetings |-> results,
     filters_applied |->
         [query |-> query, from_date |-> from_date, to_date |-> to_date,
          participant |-> participant, limit |-> limit]]

\* if limit and limit > 0: meetings = meetings[:limit]
Limited(meetings, limit) ==
    IF limit # None /\ Get(limit) > 0 THEN Slice(meetings, Get(limit)) ELSE meetings

\* if query: meetings = self._search_meetings_by_query(meetings, query)
Queried(meetings, query) ==
    IF Truthy(query) THEN _search_meetings_by_query(meetings, Get(query)) ELSE meetings

\* if participant: meetings = self._filter_meetings_by_participant(meetings, participant)
Attended(meetings, participant) ==
    IF Truthy(participant) THEN _filter_meetings_by_participant(meetings, Get(participant))
    ELSE meetings

\* A faulty variant of Searched, which C25 must notice: the limit is applied
\* before the participant and the query filters.
SearchedLimitFirst(g, dated, query, from_date, to_date, participant, limit) ==
    IF dated.raised # "" THEN Done(MCPToolError(<<"Search failed">> \o dated.msg), g)
    ELSE Done(Ok(SearchReport(
                    ListEntries(Queried(Attended(Limited(dated.meetings, limit),
                                                 participant), query)),
                    query, from_date, to_date, participant, limit)), g)

\* search_meetings once the date filter has returned or raised
Searched(g, dated, query, from_date, to_date, participant, limit) ==
    IF dated.raised # "" THEN Done(MCPToolError(<<"Search failed">> \o dated.msg), g)
    ELSE Done(Ok(SearchReport(
                    ListEntries(Limited(Queried(Attended(dated.meetings, participant),
                                                query), limit)),
                    query, from_date, to_date, participant, limit)), g)

\* search_meetings once the records are there; from_date is the bound in use
SearchIn(g, query, from_date, to_date, participant, limit) ==
    IF g.raised THEN Done(MCPToolError(<<"Search failed">> \o g.msg), g)
    ELSE Searched(g, _filter_meetings_by_date(g.meetings, from_date, to_date),
                  query, from_date, to_date, participant, limit)

\* A faulty variant of SearchWith, which C12 must notice: no default is applied.
SearchWithoutDefault(g, query, from_date, to_date, participant, limit) ==
    SearchIn(g, query, from_date, to_date, participant, limit)

\* search_meetings on what _get_meetings gave: if not from_date and not to_date:
\* from_date = "3d"
SearchWith(g, query, from_date, to_date, participant, limit) ==
    SearchIn(g, query,
             IF Falsy(from_date) /\ Falsy(to_date) THEN Some(DefaultWindow) ELSE from_date,
             to_date, participant, limit)

search_meetings(query, from_date, to_date, participant, limit) ==
    SearchWith(_get_meetings(FALSE), query, from_date, to_date, participant, limit)

list_meetings(from_date, to_date, limit) ==
    search_meetings(None, from_date, to_date, None, limit)

------------------------------------------------------------------------------
(* Single-record lookups *)

\* A faulty variant of FindMeeting, which C10 must notice: the loop has no break,
\* so the last record with the id is the one that stays.
FindLastMeeting(meetings, meeting_id) ==
    LET hits == {i \in DOMAIN meetings : meetings[i].id = meeting_id}
    IN  IF hits = {} THEN None ELSE Some(meetings[Max(hits)])

\* for m in meetings: if m.id == meeting_id: meeting = m; break
FindMeeting(meetings, meeting_id) ==
    LET hits == {i \in DOMAIN meetings : meetings[i].id = meeting_id}
    IN  IF hits = {} THEN None ELSE Some(meetings[Min(hits)])

NotFound(meeting_id) == MCPToolError(<<"Meeting not found", meeting_id>>)

TranscriptInfo(transcript) ==
    [word_count |-> transcript.word_count, speakers |-> transcript.speakers,
     segment_count |-> Len(transcript.segments),
     duration_seconds |-> transcript.duration]

MeetingDetails(meeting) ==
    [id |-> meeting.id, title |-> meeting.title,
     start_time |-> meeting.start_time,
     duration_minutes |-> DurationMinutes(meeting),
     participants |-> meeting.participants,
     summary |-> meeting.summary, tags |-> meeting.tags,
     has_transcript |-> meeting.has_transcript,
     transcript_info |->
         IF meeting.has_transcript /\ meeting.transcript # None
         THEN Some(TranscriptInfo(Get(meeting.transcript)))
         ELSE None]

\* A faulty variant of Looked, which C8 must notice: "if not meeting: raise" is
\* missing and a lookup that found nothing answers with nothing.
LookedLenient(g, found, meeting_id, result) ==
    IF g.raised THEN Done(MCPToolError(g.msg), g)
    ELSE IF found = None THEN Done(Ok(None), g)
    ELSE Done(result, g)

\* a lookup handler once the records are there and the loop over them has run:
\* found is None or Some(meeting); result is the outcome on that meeting
Looked(g, found, meeting_id, result) ==
    IF g.raised THEN Done(MCPToolError(g.msg), g)
    ELSE IF found = None THEN Done(NotFound(meeting_id), g)
    ELSE Done(result, g)

GotMeeting(g, found, meeting_id) ==
    Looked(g, found, meeting_id, Ok(MeetingDetails(Get(found))))

MeetingIn(g, meeting_id) ==
    GotMeeting(g, FindMeeting(g.meetings, meeting_id), meeting_id)

get_meeting(meeting_id) == MeetingIn(_get_meetings(FALSE), meeting_id)

SegmentData(segment, include_speakers, include_timestamps) ==
    [text |-> segment.text,
     speaker |-> IF include_speakers THEN segment.speaker ELSE None,
     timestamp |-> IF include_timestamps THEN segment.timestamp ELSE None,
     start_time |-> IF include_timestamps THEN segment.start_time ELSE None,
     end_time |-> IF include_timestamps THEN segment.end_time ELSE None]

TranscriptData(meeting_id, title, transcript, include_speakers, include_timestamps) ==
    [meeting_id |-> meeting_id, meeting_title |-> title,
     full_text |-> transcript.full_text,
     word_count |-> transcript.word_count,
     speakers |-> transcript.speakers,
     segment_count |-> Len(transcript.segments),
     segments |->
         [i \in DOMAIN transcript.segments |->
             SegmentData(transcript.segments[i], include_speakers, include_timestamps)]]

\* A faulty variant of TranscriptOf, which C9 must notice: "if transcript is
\* None" is missing, and reading the absent transcript ends in the handler's
\* catch-all.
TranscriptOfUnchecked(meeting, meeting_id, include_speakers, include_timestamps) ==
    IF ~meeting.has_transcript
    THEN MCPToolError(<<"Meeting has no transcript", meeting_id>>)
    ELSE IF meeting.transcript = None
    THEN MCPToolError(<<"Failed to get transcript", "AttributeError">>)
    ELSE Ok(TranscriptData(meeting_id, meeting.title, Get(meeting.transcript),
                           include_speakers, include_timestamps))

\* get_transcript on the meeting it found
TranscriptOf(meeting, meeting_id, include_speakers, include_timestamps) ==
    IF ~meeting.has_transcript
    THEN MCPToolError(<<"Meeting has no transcript", meeting_id>>)
    ELSE IF meeting.transcript = None
    THEN MCPToolError(<<"Meeting transcript is None", meeting_id>>)
    ELSE Ok(TranscriptData(meeting_id, meeting.title, Get(meeting.transcript),
                           include_speakers, include_timestamps))

GotTranscript(g, found, meeting_id, include_speakers, include_timestamps) ==
    Looked(g, found, meeting_id,
           TranscriptOf(Get(found), meeting_id, include_speakers, include_timestamps))

TranscriptIn(g, meeting_id, include_speakers, include_timestamps) ==
    GotTranscript(g, FindMeeting(g.meetings, meeting_id), meeting_id,
                  include_speakers, include_timestamps)

get_transcript(meeting_id, include_speakers, include_timestamps) ==
    TranscriptIn(_get_meetings(FALSE), meeting_id, include_speakers, include_timestamps)

\* len(text.split())
WordCount(text) ==
    Cardinality({i \in DOMAIN text :
        text[i] \notin Whitespace /\ (i = 1 \/ text[i - 1] \in Whitespace)})

\* counter[key] += n on a dict kept as the list of <<key, count>> in insertion order
AddCount(counter, key, n) ==
    IF \E i \in DOMAIN counter : counter[i][1] = key
    THEN [i \in DOMAIN counter |->
            IF counter[i][1] = key THEN <<key, counter[i][2] + n>> ELSE counter[i]]
    ELSE Append(counter, <<key, n>>)

RECURSIVE Tally(_)
\* the dict built by adding the <<key, n>> of a list one after the other
Tally(pairs) ==
    IF pairs = <<>> THEN <<>>
    ELSE AddCount(Tally(SubSeq(pairs, 1, Len(pairs) - 1)),
                  pairs[Len(pairs)][1], pairs[Len(pairs)][2])

WordsOf(spoken) == [i \in DOMAIN spoken |-> <<Get(spoken[i].speaker), WordCount(spoken[i].text)>>]

\* speaker_words: the words of the segments with a speaker and a text, by speaker
SpeakerWords(segments) ==
    Tally(WordsOf(SelectSeqBy(segments,
              {x \in Range(segments) : x.speaker # None /\ x.text # <<>>})))

TranscriptSummary(transcript) ==
    [total_words |-> transcript.word_count,
     speakers |-> transcript.speakers,
     speaker_count |-> Len(transcript.speakers),
     speaker_participation |-> SpeakerWords(transcript.segments)]

MeetingNotes(meeting, meeting_id) ==
    [meeting_id |-> meeting_id, title |-> meeting.title,
     date |-> IF HasStart(meeting) THEN Some(Get(meeting.start_time)[1]) ELSE None,
     duration |-> DurationMinutes(meeting),
     participants |-> meeting.participants,
     summary |-> meeting.summary, tags |-> meeting.tags,
     transcript_summary |->
         IF meeting.has_transcript /\ meeting.transcript # None
         THEN Some(TranscriptSummary(Get(meeting.transcript)))
         ELSE None]

GotNotes(g, found, meeting_id) ==
    Looked(g, found, meeting_id, Ok(MeetingNotes(Get(found), meeting_id)))

NotesIn(g, meeting_id) == GotNotes(g, FindMeeting(g.meetings, meeting_id), meeting_id)

get_meeting_notes(meeting_id) == NotesIn(_get_meetings(FALSE), meeting_id)

\* the text export_meeting_to_markdown makes of a meeting, left uninterpreted
Markdown(meeting, include_transcript, include_metadata) ==
    <<"markdown", meeting, include_transcript, include_metadata>>

Exported(meeting, meeting_id, include_transcript, include_metadata) ==
    [meeting_id |-> meeting_id, title |-> meeting.title,
     format |-> "markdown",
     content |-> Markdown(meeting, include_transcript, include_metadata),
     includes_transcript |-> include_transcript /\ meeting.has_transcript,
     includes_metadata |-> include_metadata]

GotExport(g, found, meeting_id, include_transcript, include_metadata) ==
    Looked(g, found, meeting_id,
           Ok(Exported(Get(found), meeting_id, include_transcript, include_metadata)))

ExportIn(g, meeting_id, include_transcript, include_metadata) ==
    GotExport(g, FindMeeting(g.meetings, meeting_id), meeting_id,
              include_transcript, include_metadata)

export_meeting(meeting_id, include_transcript, include_metadata) ==
    ExportIn(_get_meetings(FALSE), meeting_id, include_transcript, include_metadata)

------------------------------------------------------------------------------
(* Counting *)

RECURSIVE Flatten(_)
\* the concatenation of a list of lists
Flatten(lists) == IF lists = <<>> THEN <<>> ELSE Head(lists) \o Flatten(Tail(lists))

\* where an item goes in a list sorted by count descending, behind every item
\* whose count is not smaller (sorted(..., reverse=True) is stable)
RECURSIVE InsertByCount(_, _)
InsertByCount(sorted, item) ==
    IF sorted = <<>> THEN <<item>>
    ELSE IF Head(sorted)[2] < item[2] THEN <<item>> \o sorted
    ELSE <<Head(sorted)>> \o InsertByCount(Tail(sorted), item)

RECURSIVE SortByCountDesc(_)
SortByCountDesc(counter) ==
    IF counter = <<>> THEN <<>>
    ELSE InsertByCount(SortByCountDesc(SubSeq(counter, 1, Len(counter) - 1)),
                       counter[Len(counter)])

\* Counter.most_common()
most_common(counter) == SortByCountDesc(counter)
\* A faulty variant of most_common_n, which C21 must notice: the first n keys
\* in first-seen order, the counts not looked at.
most_common_unsorted(counter, n) == Slice(counter, n)

\* Counter.most_common(n)
most_common_n(counter, n) == Slice(SortByCountDesc(counter), n)

\* max(counts.items(), key=lambda x: x[1]) if counts else None: the first maximum
Peak(counter) == IF counter = <<>> THEN None ELSE Some(SortByCountDesc(counter)[1])

\* Counter of the values of a list, as a dict in first-seen order
CountValues(values) == Tally([i \in DOMAIN values |-> <<values[i], 1>>])

RECURSIVE SumSeq(_)
SumSeq(s) == IF s = <<>> THEN 0 ELSE Head(s) + SumSeq(Tail(s))

RECURSIVE InsertAsc(_, _)
InsertAsc(sorted, x) ==
    IF sorted = <<>> THEN <<x>>
    ELSE IF x < Head(sorted) THEN <<x>> \o sorted
    ELSE <<Head(sorted)>> \o InsertAsc(Tail(sorted), x)

RECURSIVE SortAsc(_)
SortAsc(s) == IF s = <<>> THEN <<>> ELSE InsertAsc(SortAsc(Tail(s)), Head(s))

\* statistics.mean and statistics.median of a non-empty list, as the fraction
\* <<numerator, denominator>>
mean(s) == <<SumSeq(s), Len(s)>>
median(s) ==
    LET sorted == SortAsc(s)
        n == Len(s)
    IN  IF n % 2 = 1 THEN <<sorted[(n + 1) \div 2], 1>>
        ELSE <<sorted[n \div 2] + sorted[n \div 2 + 1], 2>>

\* statistics.stdev is the square root of this fraction (the sample variance)
variance(s) ==
    LET n == Len(s)
    IN  <<n * SumSeq([i \in DOMAIN s |-> s[i] * s[i]]) - SumSeq(s) * SumSeq(s), n * (n - 1)>>

------------------------------------------------------------------------------
(* list_participants *)

ParticipantsOf(meetings) == Flatten([i \in DOMAIN meetings |-> meetings[i].participants])

\* the <<participant, meeting reference>> appended by the two loops, in order
References(meetings) ==
    Flatten([i \in DOMAIN meetings |->
        [j \in DOMAIN meetings[i].participants |->
            <<meetings[i].participants[j],
              [id |-> meetings[i].id, title |-> meetings[i].title,
               date |-> meetings[i].start_time]>>]])

Seconds(pairs) == [i \in DOMAIN pairs |-> pairs[i][2]]

\* participant_meetings[participant]
MeetingsOf(refs, participant) ==
    Seconds(SelectSeqBy(refs, {r \in Range(refs) : r[1] = participant}))

\* if min_meetings: keep the counts >= min_meetings
AtLeast(participant_counts, min_meetings) ==
    IF min_meetings # None /\ Get(min_meetings) # 0
    THEN SelectSeqBy(participant_counts,
             {c \in Range(participant_counts) : c[2] >= Get(min_meetings)})
    ELSE participant_counts

ParticipantEntries(ranked, refs) ==
    [i \in DOMAIN ranked |->
        [name |-> ranked[i][1], meeting_count |-> ranked[i][2],
         meetings |-> MeetingsOf(refs, ranked[i][1])]]

ParticipantReport(participants, analyzed, from_date, to_date, min_meetings) ==
    [total_participants |-> Len(participants),
     total_meetings_analyzed |-> analyzed,
     participants |-> participants,
     filters_applied |->
         [from_date |-> from_date, to_date |-> to_date, min_meetings |-> min_meetings]]

\* list_participants once the date filter has returned or raised
Listed(g, dated, from_date, to_date, min_meetings) ==
    IF dated.raised # ""
    THEN Done(MCPToolError(<<"Failed to list participants">> \o dated.msg), g)
    ELSE Done(Ok(ParticipantReport(
                    ParticipantEntries(
                        most_common(AtLeast(CountValues(ParticipantsOf(dated.meetings)),
                                            min_meetings)),
                        References(dated.meetings)),
                    Len(dated.meetings), from_date, to_date, min_meetings)), g)

ParticipantsIn(g, from_date, to_date, min_meetings) ==
    IF g.raised THEN Done(MCPToolError(<<"Failed to list participants">> \o g.msg), g)
    ELSE Listed(g, _filter_meetings_by_date(g.meetings, from_date, to_date),
                from_date, to_date, min_meetings)

list_participants(from_date, to_date, min_meetings) ==
    ParticipantsIn(_get_meetings(FALSE), from_date, to_date, min_meetings)

------------------------------------------------------------------------------
(* Calendar keys of an instant *)

\* datetime.weekday(): 0 is Monday; day 0 (2025-01-01) is a Wednesday
weekday(t) == (t[1] + 2) % 7
hour(t) == t[2] \div 3600

\* the year of a day: the y with DayOf(y, 1, 1) <= day < DayOf(y + 1, 1, 1)
YearOf(day) ==
    LET guess == ((day + EpochOrdinal) * 400) \div 146097 + 1
    IN  CHOOSE y \in (guess - 1)..(guess + 1) :
            DayOf(y, 1, 1) <= day /\ day < DayOf(y + 1, 1, 1)

MonthOf(day) ==
    LET y == YearOf(day)
    IN  CHOOSE m \in 1..12 :
            /\ DayOf(y, m, 1) <= day
            /\ day < DayOf(y, m, 1) + DaysInMonth(y, m)

StartTimes(dated) == [i \in DOMAIN dated |-> Get(dated[i].start_time)]
Lengths(timed) == [i \in DOMAIN timed |-> Get(timed[i].duration)]

\* [m.start_time for m in meetings if m.start_time]
StartsOf(meetings) ==
    StartTimes(SelectSeqBy(meetings, {m \in Range(meetings) : HasStart(m)}))

\* m.duration.total_seconds() of the meetings with a duration, in list order
DurationsOf(meetings) ==
    Lengths(SelectSeqBy(meetings, {m \in Range(meetings) : HasDuration(m)}))

------------------------------------------------------------------------------
(* get_statistics *)

\* (latest - earliest).days
SpanDays(earliest, latest) ==
    latest[1] - earliest[1] - (IF latest[2] < earliest[2] THEN 1 ELSE 0)

Earliest(dates) == CHOOSE d \in Range(dates) : \A e \in Range(dates) : AtMost(d, e)
Latest(dates) == CHOOSE d \in Range(dates) : \A e \in Range(dates) : AtMost(e, d)

DateRange(dates) ==
    IF dates # <<>>
    THEN Some([earliest |-> Earliest(dates), latest |-> Latest(dates),
               span_days |-> SpanDays(Earliest(dates), Latest(dates))])
    ELSE None

DurationSummary(durations) ==
    IF durations # <<>>
    THEN Some([total |-> SumSeq(durations), average |-> mean(durations),
               median |-> median(durations),
               min |-> Min(Range(durations)), max |-> Max(Range(durations))])
    ELSE None

ParticipantSummary(all, total_meetings) ==
    [unique_participants |-> Cardinality(Range(all)),
     total_participations |-> Len(all),
     average_participants_per_meeting |->
         IF total_meetings > 0 THEN <<Len(all), total_meetings>> ELSE <<0, 1>>]

_get_summary_statistics(meetings) ==
    [total_meetings |-> Len(meetings),
     date_coverage |-> <<Len(StartsOf(meetings)), Len(meetings)>>,
     duration_coverage |-> <<Len(DurationsOf(meetings)), Len(meetings)>>,
     transcript_coverage |->
         <<Len(SelectSeqBy(meetings, {m \in Range(meetings) : m.has_transcript})),
           Len(meetings)>>,
     date_range |-> DateRange(StartsOf(meetings)),
     duration_statistics |-> DurationSummary(DurationsOf(meetings)),
     participant_statistics |-> ParticipantSummary(ParticipantsOf(meetings), Len(meetings))]

Days(dates) == [i \in DOMAIN dates |-> dates[i][1]]
Mondays(dates) == [i \in DOMAIN dates |-> dates[i][1] - weekday(dates[i])]
Months(dates) == [i \in DOMAIN dates |-> <<YearOf(dates[i][1]), MonthOf(dates[i][1])>>]

FrequencyReport(daily_counts, weekly_counts, monthly_counts) ==
    [daily_frequency |-> Range(daily_counts),
     weekly_frequency |-> Range(weekly_counts),
     monthly_frequency |-> Range(monthly_counts),
     peak_day |-> Peak(daily_counts),
     peak_week |-> Peak(weekly_counts),
     peak_month |-> Peak(monthly_counts)]

FrequencyOf(dates) ==
    FrequencyReport(CountValues(Days(dates)), CountValues(Mondays(dates)),
                    CountValues(Months(dates)))

_get_frequency_statistics(meetings) == FrequencyOf(StartsOf(meetings))

\* the bucket bounds are minutes; durations are kept in seconds
Bucket15 == 15
Bucket30 == 30
Bucket60 == 60
Bucket90 == 90

DurationBucket(seconds) ==
    IF seconds <= Bucket15 * 60 THEN "0-15 min"
    ELSE IF seconds <= Bucket30 * 60 THEN "15-30 min"
    ELSE IF seconds <= Bucket60 * 60 THEN "30-60 min"
    ELSE IF seconds <= Bucket90 * 60 THEN "60-90 min"
    ELSE "90+ min"

DurationBuckets == {"0-15 min", "15-30 min", "30-60 min", "60-90 min", "90+ min"}

DurationReport(durations) ==
    IF durations = <<>>
    THEN [error |-> "No duration data available"]
    ELSE [total_meetings |-> Len(durations),
          total |-> SumSeq(durations),
          average |-> mean(durations),
          median |-> median(durations),
          min |-> Min(Range(durations)),
          max |-> Max(Range(durations)),
          variance |-> IF Len(durations) > 1 THEN variance(durations) ELSE <<0, 1>>,
          duration_distribution |->
              [b \in DurationBuckets |->
                  Cardinality({i \in DOMAIN durations :
                                 DurationBucket(durations[i]) = b})]]

_get_duration_statistics(meetings) == DurationReport(DurationsOf(meetings))

TopCount == 10

Sizes(meetings) == [i \in DOMAIN meetings |-> Len(meetings[i].participants)]

ParticipantCounts(participant_counts, meeting_sizes) ==
    IF participant_counts = <<>>
    THEN [error |-> "No participant data available"]
    ELSE [unique_participants |-> Len(participant_counts),
          total_participations |-> SumSeq(Seconds(participant_counts)),
          average_meeting_size |-> mean(meeting_sizes),
          median_meeting_size |-> median(meeting_sizes),
          max_meeting_size |-> Max(Range(meeting_sizes)),
          min_meeting_size |-> Min(Range(meeting_sizes)),
          top_participants |-> most_common_n(participant_counts, TopCount),
          meeting_size_distribution |-> Range(CountValues(meeting_sizes))]

_get_participant_statistics(meetings) ==
    ParticipantCounts(CountValues(ParticipantsOf(meetings)), Sizes(meetings))

day_names == <<"Monday", "Tuesday", "Wednesday", "Thursday", "Friday", "Saturday", "Sunday">>

Hours(dates) == [i \in DOMAIN dates |-> hour(dates[i])]
Weekdays(dates) == [i \in DOMAIN dates |-> weekday(dates[i])]

PatternReport(hourly_counts, daily_counts) ==
    [hourly_patterns |-> Range(hourly_counts),
     daily_patterns |-> {<<day_names[c[1] + 1], c[2]>> : c \in Range(daily_counts)},
     peak_hour |-> Peak(hourly_counts),
     peak_day |-> IF daily_counts = <<>> THEN None
                  ELSE Some(day_names[Get(Peak(daily_counts))[1] + 1])]

PatternsOf(dates) == PatternReport(CountValues(Hours(dates)), CountValues(Weekdays(dates)))

_get_pattern_statistics(meetings) == PatternsOf(StartsOf(meetings))

StatTypes == {"summary", "frequency", "duration", "participants", "patterns"}

\* A faulty variant of StatisticsOf, which C7 must notice: the chain ends in the
\* summary, so that a type it does not know gets the summary.
StatisticsOrSummary(stat_type, meetings) ==
    IF stat_type = "frequency" THEN Ok(_get_frequency_statistics(meetings))
    ELSE IF stat_type = "duration" THEN Ok(_get_duration_statistics(meetings))
    ELSE IF stat_type = "participants" THEN Ok(_get_participant_statistics(meetings))
    ELSE IF stat_type = "patterns" THEN Ok(_get_pattern_statistics(meetings))
    ELSE Ok(_get_summary_statistics(meetings))

\* A faulty variant of StatisticsOf, which C22 must notice: the duration branch
\* without its guard, so that statistics.mean raises on no durations.
StatisticsOfUnguarded(stat_type, meetings) ==
    IF stat_type = "summary" THEN Ok(_get_summary_statistics(meetings))
    ELSE IF stat_type = "frequency" THEN Ok(_get_frequency_statistics(meetings))
    ELSE IF stat_type = "duration"
    THEN IF DurationsOf(meetings) = <<>>
         THEN MCPToolError(<<"Failed to generate statistics",
                             "mean requires at least one data point">>)
         ELSE Ok(_get_duration_statistics(meetings))
    ELSE IF stat_type = "participants" THEN Ok(_get_participant_statistics(meetings))
    ELSE IF stat_type = "patterns" THEN Ok(_get_pattern_statistics(meetings))
    ELSE MCPToolError(<<"Unknown statistics type", stat_type>>)

\* the branch of get_statistics on stat_type
StatisticsOf(stat_type, meetings) ==
    IF stat_type = "summary" THEN Ok(_get_summary_statistics(meetings))
    ELSE IF stat_type = "frequency" THEN Ok(_get_frequency_statistics(meetings))
    ELSE IF stat_type = "duration" THEN Ok(_get_duration_statistics(meetings))
    ELSE IF stat_type = "participants" THEN Ok(_get_participant_statistics(meetings))
    ELSE IF stat_type = "patterns" THEN Ok(_get_pattern_statistics(meetings))
    ELSE MCPToolError(<<"Unknown statistics type", stat_type>>)

\* get_statistics once the date filter has returned or raised
Computed(g, dated, stat_type) ==
    IF dated.raised = "MCPToolError" THEN Done(MCPToolError(dated.msg), g)
    ELSE IF dated.raised # ""
    THEN Done(MCPToolError(<<"Failed to generate statistics">> \o dated.msg), g)
    ELSE Done(StatisticsOf(stat_type, dated.meetings), g)

\* A faulty variant of StatisticsIn, which C14 must notice: without bounds the
\* three-day default of search_meetings is applied here too.
StatisticsInWindow(g, stat_type, from_date, to_date) ==
    IF g.raised THEN Done(MCPToolError(g.msg), g)
    ELSE Computed(g, _filter_meetings_by_date(g.meetings,
                        IF Falsy(from_date) /\ Falsy(to_date) THEN Some(DefaultWindow)
                        ELSE from_date, to_date),
                  stat_type)

StatisticsIn(g, stat_type, from_date, to_date) ==
    IF g.raised THEN Done(MCPToolError(g.msg), g)
    ELSE Computed(g, _filter_meetings_by_date(g.meetings, from_date, to_date), stat_type)

get_statistics(stat_type, from_date, to_date) ==
    StatisticsIn(_get_meetings(FALSE), stat_type, from_date, to_date)

------------------------------------------------------------------------------
(* analyze_patterns *)

\* code point order of the characters of the model: " " < digits < A-Z < a-z
CharOrder == <<" ">> \o DigitChars \o UpperCase \o LowerCase
CharCode(c) == CHOOSE i \in DOMAIN CharOrder : CharOrder[i] = c

\* a < b for str
TextLess(a, b) ==
    \E i \in 1..(Len(b)) :
        /\ \A j \in 1..(i - 1) : j <= Len(a) /\ a[j] = b[j]
        /\ \/ i = Len(a) + 1
           \/ i <= Len(a) /\ CharCode(a[i]) < CharCode(b[i])

\* tuple(sorted([p1, p2]))
SortedPair(p1, p2) == IF TextLess(p2, p1) THEN <<p2, p1>> ELSE <<p1, p2>>

\* the pairs one meeting counts, in the order of the two loops
PairsOf(participants) ==
    IF Len(participants) >= 2
    THEN Flatten([i \in DOMAIN participants |->
            [k \in 1..(Len(participants) - i) |->
                SortedPair(participants[i], participants[i + k])]])
    ELSE <<>>

_analyze_time_patterns(meetings) == _get_pattern_statistics(meetings)

_analyze_frequency_patterns(meetings) == _get_frequency_statistics(meetings)

AllPairs(meetings) == Flatten([i \in DOMAIN meetings |-> PairsOf(meetings[i].participants)])

CollaborationReport(participant_stats, participant_pairs) ==
    [participant_stats |-> participant_stats,
     frequent_collaborations |-> most_common_n(participant_pairs, TopCount),
     collaboration_analysis |->
         [total_unique_pairs |-> Len(participant_pairs),
          most_frequent_pair |->
              IF participant_pairs # <<>>
              THEN Some(most_common_n(participant_pairs, 1)[1]) ELSE None]]

_analyze_participant_patterns(meetings) ==
    CollaborationReport(_get_participant_statistics(meetings),
                        CountValues(AllPairs(meetings)))

RECURSIVE InsertByStartAsc(_, _)
InsertByStartAsc(sorted, x) ==
    IF sorted = <<>> THEN <<x>>
    ELSE IF Before(Get(x.start_time), Get(Head(sorted).start_time))
         THEN <<x>> \o sorted
         ELSE <<Head(sorted)>> \o InsertByStartAsc(Tail(sorted), x)

RECURSIVE SortByStartAsc(_)
\* dated_meetings.sort(key=lambda m: m.start_time): stable, ascending
SortByStartAsc(s) ==
    IF s = <<>> THEN <<>>
    ELSE InsertByStartAsc(SortByStartAsc(SubSeq(s, 1, Len(s) - 1)), s[Len(s)])

TrendMinMeetings == 5
TrendMinDated == 2

\* second_avg > first_avg * 1.1, second_avg < first_avg * 0.9, on exact fractions
Trend(first_half, second_half) ==
    IF first_half # <<>> /\ second_half # <<>>
    THEN IF 10 * SumSeq(second_half) * Len(first_half)
              > 11 * SumSeq(first_half) * Len(second_half)
         THEN "increasing"
         ELSE IF 10 * SumSeq(second_half) * Len(first_half)
                   < 9 * SumSeq(first_half) * Len(second_half)
         THEN "decreasing"
         ELSE "stable"
    ELSE "stable"

TrendReport(first_half, second_half) ==
    [trend |-> Trend(first_half, second_half),
     first_half_avg |-> IF first_half # <<>> THEN mean(first_half) ELSE <<0, 1>>,
     second_half_avg |-> IF second_half # <<>> THEN mean(second_half) ELSE <<0, 1>>]

TrendOf(durations) ==
    TrendReport(SubSeq(durations, 1, Len(durations) \div 2),
                SubSeq(durations, Len(durations) \div 2 + 1, Len(durations)))

\* [m for m in meetings if m.start_time and m.duration], sorted by start_time
DatedMeetings(meetings) ==
    SortByStartAsc(SelectSeqBy(meetings,
        {m \in Range(meetings) : HasStart(m) /\ HasDuration(m)}))

\* A faulty variant of TrendAnalysis, which C26 must notice: the number of
\* records is not looked at, only that of the dated ones.
TrendOfDatedAlone(total, dated_meetings) ==
    IF Len(dated_meetings) > TrendMinDated
    THEN Some(TrendOf(DurationsOf(dated_meetings)))
    ELSE None

TrendAnalysis(total, dated_meetings) ==
    IF total > TrendMinMeetings /\ Len(dated_meetings) > TrendMinDated
    THEN Some(TrendOf(DurationsOf(dated_meetings)))
    ELSE None

_analyze_duration_patterns(meetings) ==
    [duration_stats |-> _get_duration_statistics(meetings),
     trend_analysis |-> TrendAnalysis(Len(meetings), DatedMeetings(meetings))]

PatternTypes == {"time", "frequency", "participants", "duration"}

\* the branch of analyze_patterns on pattern_type
PatternsFor(pattern_type, meetings) ==
    IF pattern_type = "time" THEN Ok(_analyze_time_patterns(meetings))
    ELSE IF pattern_type = "frequency" THEN Ok(_analyze_frequency_patterns(meetings))
    ELSE IF pattern_type = "participants" THEN Ok(_analyze_participant_patterns(meetings))
    ELSE IF pattern_type = "duration" THEN Ok(_analyze_duration_patterns(meetings))
    ELSE MCPToolError(<<"Unknown pattern type", pattern_type>>)

\* analyze_patterns once the date filter has returned or raised
Analyzed(g, dated, pattern_type) ==
    IF dated.raised = "MCPToolError" THEN Done(MCPToolError(dated.msg), g)
    ELSE IF dated.raised # ""
    THEN Done(MCPToolError(<<"Failed to analyze patterns">> \o dated.msg), g)
    ELSE Done(PatternsFor(pattern_type, dated.meetings), g)

PatternsIn(g, pattern_type, from_date, to_date) ==
    IF g.raised THEN Done(MCPToolError(g.msg), g)
    ELSE Analyzed(g, _filter_meetings_by_date(g.meetings, from_date, to_date), pattern_type)

analyze_patterns(pattern_type, from_date, to_date) ==
    PatternsIn(_get_meetings(FALSE), pattern_type, from_date, to_date)

------------------------------------------------------------------------------
(* execute_tool *)

ToolNames ==
    {"get_recent_meetings", "list_meetings", "search_meetings", "get_meeting",
     "get_transcript", "get_meeting_notes", "list_participants", "get_statistics",
     "export_meeting", "analyze_patterns", "refresh_cache"}

\* handler(**arguments) binds: every key is a parameter, every required parameter is given
Binds(params, required, arguments) ==
    DOMAIN arguments \subseteq params /\ required \subseteq DOMAIN arguments

\* a parameter with the default None
Opt(arguments, key) == IF key \in DOMAIN arguments THEN Some(arguments[key]) ELSE None
\* a parameter with another default
Arg(arguments, key, default) == IF key \in DOMAIN arguments THEN arguments[key] ELSE default

\* the call raised before the handler ran
Unbound == [outcome |-> TypeError, cache |-> cache, calls |-> <<>>]

DefaultCount == 10

\* A faulty variant of LastBranches, which C5 must notice: the chain ends in the
\* refresh branch, so that a name it does not know refreshes the cache.
LastBranchesLenient(tool_name) == refresh_cache

\* the end of the chain: elif tool_name == "refresh_cache": ... else: raise
LastBranches(tool_name) ==
    IF tool_name = "refresh_cache" THEN refresh_cache
    ELSE [outcome |-> MCPToolError(<<"Unknown tool", tool_name>>),
          cache |-> cache, calls |-> <<>>]

execute_tool(tool_name, arguments) ==
    IF tool_name = "get_recent_meetings"
    THEN IF Binds({"count"}, {}, arguments)
         THEN get_recent_meetings(Arg(arguments, "count", DefaultCount))
         ELSE Unbound
    ELSE IF tool_name = "list_meetings"
    THEN IF Binds({"from_date", "to_date", "limit"}, {}, arguments)
         THEN list_meetings(Opt(arguments, "from_date"), Opt(arguments, "to_date"),
                            Opt(arguments, "limit"))
         ELSE Unbound
    ELSE IF tool_name = "search_meetings"
    THEN IF Binds({"query", "from_date", "to_date", "participant", "limit"}, {}, arguments)
         THEN search_meetings(Opt(arguments, "query"), Opt(arguments, "from_date"),
                              Opt(arguments, "to_date"), Opt(arguments, "participant"),
                              Opt(arguments, "limit"))
         ELSE Unbound
    ELSE IF tool_name = "get_meeting"
    THEN IF Binds({"meeting_id"}, {"meeting_id"}, arguments)
         THEN get_meeting(arguments.meeting_id)
         ELSE Unbound
    ELSE IF tool_name = "get_transcript"
    THEN IF Binds({"meeting_id", "include_speakers", "include_timestamps"},
                  {"meeting_id"}, arguments)
         THEN get_transcript(arguments.meeting_id,
                             Arg(arguments, "include_speakers", TRUE),
                             Arg(arguments, "include_timestamps", FALSE))
         ELSE Unbound
    ELSE IF tool_name = "get_meeting_notes"
    THEN IF Binds({"meeting_id"}, {"meeting_id"}, arguments)
         THEN get_meeting_notes(arguments.meeting_id)
         ELSE Unbound
    ELSE IF tool_name = "list_participants"
    THEN IF Binds({"from_date", "to_date", "min_meetings"}, {}, arguments)
         THEN list_participants(Opt(arguments, "from_date"), Opt(arguments, "to_date"),
                                Opt(arguments, "min_meetings"))
         ELSE Unbound
    ELSE IF tool_name = "get_statistics"
    THEN IF Binds({"stat_type", "from_date", "to_date"}, {"stat_type"}, arguments)
         THEN get_statistics(arguments.stat_type, Opt(arguments, "from_date"),
                             Opt(arguments, "to_date"))
         ELSE Unbound
    ELSE IF tool_name = "export_meeting"
    THEN IF Binds({"meeting_id", "include_transcript", "include_metadata"},
                  {"meeting_id"}, arguments)
         THEN export_meeting(arguments.meeting_id,
                             Arg(arguments, "include_transcript", TRUE),
                             Arg(arguments, "include_metadata", TRUE))
         ELSE Unbound
    ELSE IF tool_name = "analyze_patterns"
    THEN IF Binds({"pattern_type", "from_date", "to_date"}, {"pattern_type"}, arguments)
         THEN analyze_patterns(arguments.pattern_type, Opt(arguments, "from_date"),
                               Opt(arguments, "to_date"))
         ELSE Unbound
    ELSE LastBranches(tool_name)

------------------------------------------------------------------------------
(* The arguments the model calls the tools with *)

NoArguments == <<>>

Jan09 == <<"2", "0", "2", "5", "-", "0", "1", "-", "0", "9">>
TwoWeeks == <<"2", "w">>
Malformed == <<"3", "x">>

RecentArgs == {NoArguments, [count |-> 1], [limit |-> 1]}

ListArgs ==
    {NoArguments, [from_date |-> Malformed], [to_date |-> Jan09, limit |-> 1]}

SearchArgs ==
    {NoArguments, [query |-> <<"o">>], [participant |-> <<"b", "o">>],
     [from_date |-> TwoWeeks, query |-> <<"O", "L">>, limit |-> 1],
     [from_date |-> Jan09, to_date |-> Jan09]}

IdArgs == {[meeting_id |-> id] : id \in MeetingIds}

TranscriptArgs ==
    IdArgs \cup {[meeting_id |-> "m1", include_speakers |-> FALSE,
                  include_timestamps |-> TRUE]}

ExportArgs == IdArgs \cup {[meeting_id |-> "m1", include_transcript |-> FALSE]}

ParticipantArgs == {NoArguments, [from_date |-> DefaultWindow], [min_meetings |-> 2]}

StatArgs ==
    {[stat_type |-> t] : t \in StatTypes \cup {"weekly"}}
        \cup {[stat_type |-> "summary", from_date |-> TwoWeeks],
              [stat_type |-> "weekly", to_date |-> Jan09],
              [stat_type |-> "weekly", from_date |-> Malformed]}

PatternArgs ==
    {[pattern_type |-> t] : t \in PatternTypes \cup {"weekly"}}
        \cup {[pattern_type |-> "duration", from_date |-> TwoWeeks],
              [pattern_type |-> "weekly", to_date |-> Jan09],
              [pattern_type |-> "weekly", from_date |-> Malformed]}

UnknownTools == {"delete_meeting"}

------------------------------------------------------------------------------
(* Actions *)

NoCall == [tool |-> "", arguments |-> NoArguments, outcome |-> Ok(None)]

Call(tool_name, arguments) ==
    LET r == execute_tool(tool_name, arguments)
    IN  /\ cache' = r.cache
        /\ parserCalls' = r.calls
        /\ last' = [tool |-> tool_name, arguments |-> arguments, outcome |-> r.outcome]
        /\ UNCHANGED <<source, fault, now>>

GetRecentMeetings == \E a \in RecentArgs : Call("get_recent_meetings", a)
ListMeetings == \E a \in ListArgs : Call("list_meetings", a)
SearchMeetings == \E a \in SearchArgs : Call("search_meetings", a)
GetMeeting == \E a \in IdArgs \cup {NoArguments} : Call("get_meeting", a)
GetTranscript == \E a \in TranscriptArgs : Call("get_transcript", a)
GetMeetingNotes == \E a \in IdArgs : Call("get_meeting_notes", a)
ListParticipants == \E a \in ParticipantArgs : Call("list_participants", a)
GetStatistics == \E a \in StatArgs : Call("get_statistics", a)
ExportMeeting == \E a \in ExportArgs : Call("export_meeting", a)
AnalyzePatterns == \E a \in PatternArgs : Call("analyze_patterns", a)
RefreshCache == Call("refresh_cache", NoArguments)
UnknownTool == \E t \in UnknownTools : Call(t, NoArguments)

\* a step of the world around the tool layer: no tool is called in it
Idle ==
    /\ parserCalls' = <<>>
    /\ last' = NoCall
    /\ UNCHANGED cache

\* the record source changes behind the tool layer (Granola syncs, the file is
\* replaced) and can be read
SourceChanges ==
    /\ source' \in Sources
    /\ fault' = "none"
    /\ <<source', fault'>> # <<source, fault>>
    /\ Idle
    /\ UNCHANGED now

\* the record source becomes unreadable or malformed: there is nothing to read in it
FaultChanges ==
    /\ fault' \in (Faults \ {"none"}) \ {fault}
    /\ source' = <<>>
    /\ Idle
    /\ UNCHANGED now

\* a day passes
Tick ==
    /\ now[1] < StartDay + MaxTicks
    /\ now' = <<now[1] + 1, now[2]>>
    /\ Idle
    /\ UNCHANGED <<source, fault>>

Init ==
    /\ source \in Sources
    /\ fault = "none"
    /\ cache = None
    /\ now = <<StartDay, 43200>>
    /\ parserCalls = <<>>
    /\ last = NoCall

Next ==
    \/ GetRecentMeetings
    \/ ListMeetings
    \/ SearchMeetings
    \/ GetMeeting
    \/ GetTranscript
    \/ GetMeetingNotes
    \/ ListParticipants
    \/ GetStatistics
    \/ ExportMeeting
    \/ AnalyzePatterns
    \/ RefreshCache
    \/ UnknownTool
    \/ SourceChanges
    \/ FaultChanges
    \/ Tick

Spec == Init /\ [][Next]_vars

------------------------------------------------------------------------------
(* The claims *)

\* the ten handlers that only read
Handlers == ToolNames \ {"refresh_cache"}

\* _get_meetings() returning the list "meetings" from a loaded cache
Snapshot(meetings) ==
    [raised |-> FALSE, msg |-> <<>>, meetings |-> meetings,
     cache |-> Some(meetings), calls |-> <<>>]

\* the step called a handler and the arguments were bound to it
Ran(call) == call.tool \in ToolNames /\ call.outcome.kind # "TypeError"

\* C1: the cached record set is created by the first operation that needs
\* records; once it exists, a step that is not a refresh_cache call leaves it as
\* it is and calls no parser method, whatever the record source holds by then;
\* and the cache changes in no step other than a tool call.
C1_SnapshotChangesOnlyOnRefresh ==
    [][/\ (cache # None /\ last'.tool # "refresh_cache")
            => (cache' = cache /\ parserCalls' = <<>>)
       /\ (cache = None /\ last'.tool \in Handlers /\ Ran(last') /\ fault = "none")
            => (cache' = Some(source) /\ parserCalls' = <<"get_meetings">>)
       /\ (cache' # cache) => last'.tool \in ToolNames]_vars

\* a handler has just answered from a snapshot that is not what the record
\* source holds now
C1_Witness ==
    /\ cache # None
    /\ fault = "none"
    /\ Get(cache) # source
    /\ last.tool \in Handlers
    /\ last.outcome.kind = "ok"
    /\ parserCalls = <<>>

\* C2: a successful refresh_cache reports as previous_count the size of the set
\* cached before the call, as new_count the size of the set it loaded, and
\* meetings_added = new_count - previous_count, and leaves the loaded set in the
\* cache; a search_meetings on a loaded cache leaves it alone and answers what
\* the search over that cached set gives (so a search after a refresh answers
\* from the set the refresh loaded, not from the one before it).
C2_RefreshCountsAndSearchSeesNewSet ==
    [][/\ (last'.tool = "refresh_cache" /\ last'.outcome.kind = "ok")
            => /\ last'.outcome.value.previous_count
                    = (IF cache = None THEN 0 ELSE Len(Get(cache)))
               /\ last'.outcome.value.new_count = Len(source)
               /\ last'.outcome.value.meetings_added
                    = last'.outcome.value.new_count - last'.outcome.value.previous_count
               /\ cache' = Some(source)
       /\ (last'.tool = "search_meetings" /\ Ran(last') /\ cache # None)
            => /\ cache' = cache
               /\ last'.outcome
                    = SearchWith(Snapshot(Get(cache)),
                                 Opt(last'.arguments, "query"),
                                 Opt(last'.arguments, "from_date"),
                                 Opt(last'.arguments, "to_date"),
                                 Opt(last'.arguments, "participant"),
                                 Opt(last'.arguments, "limit")).outcome]_vars

\* a refresh has just replaced a non-empty cached set by a set of another size
C2_Witness ==
    /\ last.tool = "refresh_cache"
    /\ last.outcome.kind = "ok"
    /\ last.outcome.value.previous_count > 0
    /\ last.outcome.value.meetings_added # 0
    /\ cache = Some(source)

\* C3 (as amended): a handler other than refresh_cache leaves the record source
\* as it is and leaves a cache that is loaded as it is; on a cache that is not
\* loaded it loads the records, or fails and leaves it not loaded; and called
\* twice in a row with the same arguments, at the same "now", it gives the same
\* result.
C3_HandlersOnlyLoad ==
    [][last'.tool \in Handlers
         => /\ source' = source /\ fault' = fault
            /\ cache # None => cache' = cache
            /\ cache = None => cache' \in {None, Some(source)}
            /\ (last.tool = last'.tool /\ last.arguments = last'.arguments /\ now' = now)
                 => last'.outcome = last.outcome]_vars

\* a handler has just been called on a cache that was not loaded, and has loaded
\* a non-empty record set into it to answer
C3_Witness ==
    /\ last.tool \in Handlers
    /\ last.outcome.kind = "ok"
    /\ parserCalls = <<"get_meetings">>
    /\ cache = Some(source)
    /\ source # <<>>

\* C3 (as stated): a handler other than refresh_cache leaves the cached record
\* set and the record source unchanged, and called twice in a row with the same
\* arguments it gives the same result.
C3_AsStated ==
    [][last'.tool \in Handlers
         => /\ source' = source /\ fault' = fault
            /\ cache' = cache
            /\ (last.tool = last'.tool /\ last.arguments = last'.arguments /\ now' = now)
                 => last'.outcome = last.outcome]_vars

\* C4: a refresh_cache that fails because the record source cannot be reloaded
\* or read raises a tool error, returns nothing, and leaves the cache as it was
\* before the call.
C4_FailedRefreshKeepsSnapshot ==
    [][(last'.tool = "refresh_cache" /\ fault # "none")
         => /\ last'.outcome.kind = "MCPToolError"
            /\ last'.outcome.value = None
            /\ cache' = cache]_vars

\* a refresh has just failed on a record source that cannot be read, a
\* non-empty snapshot being cached
C4_Witness ==
    /\ last.tool = "refresh_cache"
    /\ last.outcome.kind = "MCPToolError"
    /\ fault # "none"
    /\ cache # None
    /\ Get(cache) # <<>>

\* C5: execute_tool with a name that is none of the eleven registered ones fails
\* with the unknown-tool error, calls no parser method (no handler ran, nothing
\* was loaded) and leaves the cache as it was.
C5_UnknownToolFails ==
    [][(last'.tool \notin ToolNames /\ last' # NoCall)
         => /\ Cardinality(ToolNames) = 11
            /\ last'.outcome = MCPToolError(<<"Unknown tool", last'.tool>>)
            /\ parserCalls' = <<>>
            /\ cache' = cache]_vars

\* an unknown tool has just been asked for, before anything was loaded, the
\* record source being readable
C5_Witness ==
    /\ last.tool \in UnknownTools
    /\ last.outcome.kind = "MCPToolError"
    /\ cache = None
    /\ fault = "none"
    /\ source # <<>>

\* C6: whatever the tool name and the argument map, execute_tool returns a
\* result or fails with MCPToolError; no other exception leaves it.
C6_OnlyToolErrorsEscape == last.outcome.kind \in {"ok", "MCPToolError"}

\* the bounds of the call resolve to dates
DatesValid(arguments) ==
    _filter_meetings_by_date(<<>>, Opt(arguments, "from_date"),
                             Opt(arguments, "to_date")).raised = ""

\* C7: get_statistics with a stat_type that is none of the five, and
\* analyze_patterns with a pattern_type that is none of the four, fail with a
\* tool error and return no report; whenever the records could be loaded and the
\* date bounds are valid, the error is the unknown-type one, whatever the
\* record set.
C7_UnknownSelectorFails ==
    /\ (last.tool = "get_statistics" /\ Ran(last)
            /\ last.arguments.stat_type \notin StatTypes)
         => /\ last.outcome.kind = "MCPToolError"
            /\ last.outcome.value = None
            /\ (cache # None /\ DatesValid(last.arguments))
                 => last.outcome.msg
                        = <<"Unknown statistics type", last.arguments.stat_type>>
    /\ (last.tool = "analyze_patterns" /\ Ran(last)
            /\ last.arguments.pattern_type \notin PatternTypes)
         => /\ last.outcome.kind = "MCPToolError"
            /\ last.outcome.value = None
            /\ (cache # None /\ DatesValid(last.arguments))
                 => last.outcome.msg
                        = <<"Unknown pattern type", last.arguments.pattern_type>>

\* statistics of an unknown type have just been asked for, with a valid date
\* bound, over a loaded record set that is not empty
C7_Witness ==
    /\ last.tool = "get_statistics"
    /\ last.arguments.stat_type = "weekly"
    /\ "to_date" \in DOMAIN last.arguments
    /\ last.outcome = MCPToolError(<<"Unknown statistics type", "weekly">>)
    /\ cache # None
    /\ Get(cache) # <<>>

\* the four lookups by id
Lookups == {"get_meeting", "get_transcript", "get_meeting_notes", "export_meeting"}

\* a lookup has just run on a loaded cache
LookedUp == last.tool \in Lookups /\ Ran(last) /\ cache # None

\* the places of the cached records with the id
Places(meeting_id) == {i \in DOMAIN Get(cache) : Get(cache)[i].id = meeting_id}

\* a record with no transcript to give
Untranscribed(m) == ~m.has_transcript \/ m.transcript = None

\* C8: a lookup fails with the not-found error exactly when no cached record has
\* the id; otherwise it succeeds (get_transcript: if the records with the id
\* have a transcript); on an empty record set every lookup fails with not-found.
C8_NotFoundExactlyWhenAbsent ==
    LookedUp
      => /\ (last.outcome = NotFound(last.arguments.meeting_id))
                <=> (Places(last.arguments.meeting_id) = {})
         /\ (/\ Places(last.arguments.meeting_id) # {}
             /\ \/ last.tool # "get_transcript"
                \/ \A i \in Places(last.arguments.meeting_id) :
                        ~Untranscribed(Get(cache)[i]))
              => last.outcome.kind = "ok"
         /\ Get(cache) = <<>> => last.outcome = NotFound(last.arguments.meeting_id)

\* an export has just been asked for with an id that no record of a non-empty
\* cached set has
C8_Witness ==
    /\ LookedUp
    /\ last.tool = "export_meeting"
    /\ Get(cache) # <<>>
    /\ Places(last.arguments.meeting_id) = {}
    /\ last.outcome = NotFound(last.arguments.meeting_id)

\* the cached record with the id that comes first
FirstWith(meeting_id) ==
    Get(cache)[CHOOSE i \in Places(meeting_id) : \A j \in Places(meeting_id) : i <= j]

NoTranscriptMessages == {"Meeting has no transcript", "Meeting transcript is None"}

\* C9: get_transcript on a cached meeting that has no transcript fails with the
\* no-transcript tool error: not with not-found, not with another exception, and
\* never with a result.
C9_NoTranscriptFails ==
    (/\ LookedUp
     /\ last.tool = "get_transcript"
     /\ Places(last.arguments.meeting_id) # {}
     /\ Untranscribed(FirstWith(last.arguments.meeting_id)))
      => /\ last.outcome.kind = "MCPToolError"
         /\ last.outcome.value = None
         /\ last.outcome.msg[1] \in NoTranscriptMessages
         /\ last.outcome # NotFound(last.arguments.meeting_id)

\* the transcript of a meeting whose transcript is None has just been asked for
C9_Witness ==
    /\ LookedUp
    /\ last.tool = "get_transcript"
    /\ Places(last.arguments.meeting_id) # {}
    /\ FirstWith(last.arguments.meeting_id).has_transcript
    /\ FirstWith(last.arguments.meeting_id).transcript = None
    /\ last.outcome.kind = "MCPToolError"

\* what each lookup answers on one record
AnswerOn(meeting, tool, arguments) ==
    IF tool = "get_meeting" THEN Ok(MeetingDetails(meeting))
    ELSE IF tool = "get_transcript"
    THEN TranscriptOf(meeting, arguments.meeting_id,
                      Arg(arguments, "include_speakers", TRUE),
                      Arg(arguments, "include_timestamps", FALSE))
    ELSE IF tool = "get_meeting_notes"
    THEN Ok(MeetingNotes(meeting, arguments.meeting_id))
    ELSE Ok(Exported(meeting, arguments.meeting_id,
                     Arg(arguments, "include_transcript", TRUE),
                     Arg(arguments, "include_metadata", TRUE)))

\* C10: when several cached records have the id, each of the four lookups
\* answers on the one that comes first in the record set, and on that one only.
C10_FirstMatchWins ==
    (LookedUp /\ Places(last.arguments.meeting_id) # {})
      => last.outcome
            = AnswerOn(FirstWith(last.arguments.meeting_id), last.tool, last.arguments)

\* a lookup has just answered on the first of two cached records with the same
\* id, the two giving different answers
C10_Witness ==
    /\ LookedUp
    /\ Cardinality(Places(last.arguments.meeting_id)) = 2
    /\ last.outcome.kind = "ok"
    /\ \E i \in Places(last.arguments.meeting_id) :
          AnswerOn(Get(cache)[i], last.tool, last.arguments) # last.outcome

------------------------------------------------------------------------------
(* The date expression resolver on its own: parse_date and get_date_range   *)
(* applied to expressions, under a reference time that moves.               *)

\* largest amount of the generated relative expressions
MaxAmount == 3

\* str(n)
RECURSIVE Digits(_)
Digits(n) ==
    IF n < 10 THEN <<DigitChars[n + 1]>>
    ELSE Digits(n \div 10) \o <<DigitChars[(n % 10) + 1]>>

Amounts == (0..MaxAmount) \cup {24, 3000}
UnitLetters == {"h", "d", "w", "m", "y", "H", "D", "W", "M", "Y"}

\* the expression <n><unit>
Expr(n, u) == Digits(n) \o <<u>>

RelativeInputs == {Expr(n, u) : n \in Amounts, u \in UnitLetters}

TenOClock == <<"1", "0", ":", "0", "0", ":", "0", "0">>
Jan09At10 == Jan09 \o <<" ">> \o TenOClock
Dec31 == <<"2", "0", "2", "4", "-", "1", "2", "-", "3", "1">>
Padded == <<" ">> \o TwoWeeks \o <<" ">>

\* a letter, but not <digits><unit>
MalformedRelative ==
    {Malformed, <<"d">>, <<"3", "d", "d">>, <<"d", "3">>, <<"3", " ", "d">>,
     Jan09 \o <<"T">> \o TenOClock}

\* no letter, and neither grammar
MalformedAbsolute ==
    {<<>>, <<"1", "2">>, <<"2", "0", "2", "5", "-", "1", "-", "9">>,
     Jan09 \o TenOClock, <<"2", "0", "2", "5", "/", "0", "1", "/", "0", "9">>}

\* the date grammar, but no such day
NoSuchDay ==
    {<<"2", "0", "2", "5", "-", "1", "3", "-", "0", "1">>,
     <<"2", "0", "2", "5", "-", "0", "2", "-", "2", "9">>}

BareDates == {Jan09, Dec31}
AbsoluteInputs == BareDates \cup {Jan09At10}

DateInputs ==
    RelativeInputs \cup AbsoluteInputs \cup MalformedRelative \cup MalformedAbsolute
        \cup NoSuchDay \cup {Padded}

\* the expressions get_date_range is given
RangeInputs ==
    {Expr(n, u) : n \in {0, MaxAmount, 24}, u \in {"h", "d"}}
        \cup AbsoluteInputs \cup {Malformed, Expr(3000, "y")}

ReferenceTimes == {<<StartDay, 43200>>, <<StartDay, 0>>, <<8, 36000>>}

\* parse_date(date_input, now)
ParseDate ==
    /\ \E e \in DateInputs :
          last' = [tool |-> "parse_date", arguments |-> [date_input |-> e],
                   outcome |-> parse_date(e, now)]
    /\ UNCHANGED <<source, fault, cache, now, parserCalls>>

\* get_date_range(start_date, end_date, now)
GetDateRange ==
    /\ \E s \in RangeInputs, e \in {None} \cup {Some(x) : x \in RangeInputs} :
          last' = [tool |-> "get_date_range",
                   arguments |-> [start_date |-> s, end_date |-> e],
                   outcome |-> get_date_range(s, e, now)]
    /\ UNCHANGED <<source, fault, cache, now, parserCalls>>

\* the reference time of the next call is another one
Clock ==
    /\ now' \in ReferenceTimes \ {now}
    /\ last' = NoCall
    /\ UNCHANGED <<source, fault, cache, parserCalls>>

ResolverInit ==
    /\ source = <<>>
    /\ fault = "none"
    /\ cache = None
    /\ now \in ReferenceTimes
    /\ parserCalls = <<>>
    /\ last = NoCall

ResolverNext ==
    \/ ParseDate
    \/ GetDateRange
    \/ Clock

ResolverSpec == ResolverInit /\ [][ResolverNext]_vars

------------------------------------------------------------------------------
(* The claims on the resolver.  What an expression stands for is written    *)
(* here a second time, from its meaning: an instant is counted in seconds   *)
(* since day 0, and the days of the absolute inputs are given.              *)

Secs(t) == t[1] * SecondsPerDay + t[2]
FromSecs(s) == <<s \div SecondsPerDay, s % SecondsPerDay>>

\* the length of a unit in hours: h = 1 hour, d = 24 hours, w = 7 days,
\* m = 30 days, y = 365 days
UnitHours(u) ==
    IF u \in {"h", "H"} THEN 1
    ELSE IF u \in {"d", "D"} THEN 24
    ELSE IF u \in {"w", "W"} THEN 7 * 24
    ELSE IF u \in {"m", "M"} THEN 30 * 24
    ELSE 365 * 24

\* the same in seconds, for the amounts that are not large
UnitLength(u) == UnitHours(u) * 3600

\* the whole hours of an instant since day 0, and the instant of a number of
\* hours that keeps the minutes and seconds of t
HoursSince(t) == t[1] * 24 + (t[2] \div 3600)
AtHours(h, t) == <<h \div 24, (h % 24) * 3600 + (t[2] % 3600)>>

\* reference minus n unit lengths
Back(reference, n, u) == AtHours(HoursSince(reference) - n * UnitHours(u), reference)

NotLater(a, b) == a[1] < b[1] \/ (a[1] = b[1] /\ a[2] <= b[2])

\* 2025-01-09 is day 8 and 2024-12-31 is day -1
DayNumber(date) == IF date = Jan09 THEN 8 ELSE 0 - 1

\* the first hour datetime can hold starts at 0001-01-01 00:00:00
FirstHour == MinDay * 24

Parsed == last.tool = "parse_date"
Ranged == last.tool = "get_date_range"

\* the instant a valid expression stands for as a start, in seconds
StartSecs(e) ==
    IF e \in BareDates THEN Secs(<<DayNumber(e), 0>>)
    ELSE IF e = Jan09At10 THEN Secs(<<8, 36000>>)
    ELSE LET c == CHOOSE c \in Amounts \X UnitLetters : e = Expr(c[1], c[2])
         IN  Secs(now) - c[1] * UnitLength(c[2])

\* the instant a valid expression stands for as an end, in seconds
EndSecs(e) ==
    IF e \in BareDates THEN Secs(<<DayNumber(e), 23 * 3600 + 59 * 60 + 59>>)
    ELSE StartSecs(e)

ValidInputs == {e \in RangeInputs : e # Malformed /\ e # Expr(3000, "y")}

\* get_date_range has just been given two valid expressions, or one and no end
RangedValid ==
    /\ Ranged
    /\ last.arguments.start_date \in ValidInputs
    /\ last.arguments.end_date \in {None} \cup {Some(e) : e \in ValidInputs}

GivenStart == StartSecs(last.arguments.start_date)
GivenEnd ==
    IF last.arguments.end_date = None THEN Secs(now)
    ELSE EndSecs(Get(last.arguments.end_date))

\* C15: a bare date as the end stands for 23:59:59 of its day and as the start
\* for 00:00:00 of it; an end that is relative or carries a time is the instant
\* parse_date gives, not moved to the end of a day.
C15_BareEndDateIsEndOfDay ==
    RangedValid =>
        /\ ~last.outcome.raised
        /\ \A d \in BareDates :
              /\ last.arguments.start_date = d
                    => FromSecs(Secs(<<DayNumber(d), 0>>)) \in Range(last.outcome.value)
              /\ last.arguments.end_date = Some(d)
                    => <<DayNumber(d), 86399>> \in Range(last.outcome.value)
              /\ (last.arguments.start_date = d /\ last.arguments.end_date = Some(d))
                    => last.outcome.value = <<<<DayNumber(d), 0>>, <<DayNumber(d), 86399>>>>
        /\ \A e \in ValidInputs \ BareDates :
              last.arguments.end_date = Some(e)
                 => /\ FromSecs(StartSecs(e)) \in Range(last.outcome.value)
                    /\ (e = Jan09At10 /\ last.arguments.start_date = Jan09)
                          => last.outcome.value = <<<<8, 0>>, <<8, 36000>>>>

\* the same bare date has just been given as the start and as the end
C15_Witness ==
    /\ RangedValid
    /\ last.arguments.start_date \in BareDates
    /\ last.arguments.end_date = Some(last.arguments.start_date)
    /\ ~last.outcome.raised
    /\ last.outcome.value[1][2] = 0
    /\ last.outcome.value[2][2] = 86399

\* C17: for valid expressions get_date_range returns <<lo, hi>> with lo <= hi:
\* the two resolved instants (the end after its move to the end of the day),
\* swapped when the start is the later one.
C17_RangeIsOrdered ==
    RangedValid =>
        /\ ~last.outcome.raised
        /\ Secs(last.outcome.value[1]) <= Secs(last.outcome.value[2])
        /\ last.outcome.value =
              IF GivenStart > GivenEnd
              THEN <<FromSecs(GivenEnd), FromSecs(GivenStart)>>
              ELSE <<FromSecs(GivenStart), FromSecs(GivenEnd)>>

\* a start later than the end has just been given, and the two came back swapped
C17_Witness ==
    /\ RangedValid
    /\ GivenStart > GivenEnd
    /\ ~last.outcome.raised
    /\ last.outcome.value = <<FromSecs(GivenEnd), FromSecs(GivenStart)>>

\* C18, as stated: every relative expression <n><unit> resolves to the
\* reference time minus n unit lengths, which is never later than the reference.
C18_AsStated ==
    \A n \in Amounts, u \in UnitLetters :
        (Parsed /\ last.arguments.date_input = Expr(n, u))
          => /\ ~last.outcome.raised
             /\ last.outcome.value = Back(now, n, u)
             /\ NotLater(last.outcome.value, now)

\* C18, amended: a relative expression <n><unit>, in either letter case,
\* resolves to the reference time minus n unit lengths, never later than the
\* reference, whenever that instant is not before 0001-01-01 00:00:00; when it
\* is, parse_date raises OverflowError and returns no instant.
C18_RelativeIsReferenceMinusAmount ==
    \A n \in Amounts, u \in UnitLetters :
        (Parsed /\ last.arguments.date_input = Expr(n, u))
          => IF HoursSince(now) - n * UnitHours(u) >= FirstHour
             THEN /\ ~last.outcome.raised
                  /\ last.outcome.value = Back(now, n, u)
                  /\ NotLater(last.outcome.value, now)
             ELSE /\ last.outcome.raised
                  /\ last.outcome.exc = "OverflowError"

\* an amount of upper-case units has just been taken off the reference time
C18_Witness ==
    /\ Parsed
    /\ \E n \in Amounts \ {0}, u \in {"H", "D", "W", "M", "Y"} :
          /\ last.arguments.date_input = Expr(n, u)
          /\ ~last.outcome.raised
          /\ last.outcome.value = Back(now, n, u)
          /\ last.outcome.value # now

HasLetter(e) == \E i \in DOMAIN e : e[i] \in Range(UpperCase) \cup Range(LowerCase)

\* C19: an input with a letter that is not <digits><unit> fails with the
\* invalid-date-format error (ValueError); an input without a letter fails with
\* it too unless it follows the date or the date-time grammar, and what parse_date
\* accepts is a relative expression or follows one of the two grammars.
C19_LettersMeanRelative ==
    Parsed =>
        /\ last.arguments.date_input \in MalformedRelative
              => /\ HasLetter(last.arguments.date_input)
                 /\ last.outcome.raised
                 /\ last.outcome.exc = "ValueError"
        /\ last.arguments.date_input \in MalformedAbsolute \cup NoSuchDay
              => /\ ~HasLetter(last.arguments.date_input)
                 /\ last.outcome.raised
                 /\ last.outcome.exc = "ValueError"
        /\ ~last.outcome.raised
              => IF HasLetter(last.arguments.date_input)
                 THEN last.arguments.date_input \in RelativeInputs \cup {Padded}
                 ELSE last.arguments.date_input \in AbsoluteInputs
        /\ last.arguments.date_input \in AbsoluteInputs => ~last.outcome.raised

\* "3x" has just been rejected
C19_Witness ==
    /\ Parsed
    /\ last.arguments.date_input = Malformed
    /\ last.outcome.raised
    /\ last.outcome.exc = "ValueError"

------------------------------------------------------------------------------
(* The tools that take date bounds, called over records placed around the   *)
(* reference time <<StartDay, 43200>>: ten, three and two days before it, a  *)
(* day after it, and without a start time.                                   *)

\* started exactly two days before now, at noon of 2025-01-09
TwoDaysAgo ==
    [id |-> "w2", title |-> Some(<<"T", "w", "o">>),
     start_time |-> Some(<<StartDay - 2, 43200>>), duration |-> Some(1800),
     participants |-> <<Al>>, summary |-> None, tags |-> <<>>,
     has_transcript |-> FALSE, transcript |-> None]

\* started exactly three days before now: on the edge of the default window
ThreeDaysAgo ==
    [id |-> "w3", title |-> Some(<<"E", "d", "g", "e">>),
     start_time |-> Some(<<StartDay - 3, 43200>>), duration |-> Some(5400),
     participants |-> <<Bo>>, summary |-> None, tags |-> <<>>,
     has_transcript |-> FALSE, transcript |-> None]

\* scheduled for the day after now
Tomorrow ==
    [id |-> "w4", title |-> Some(<<"N", "e", "x", "t">>),
     start_time |-> Some(<<StartDay + 1, 43200>>), duration |-> None,
     participants |-> <<Al, Cy>>, summary |-> None, tags |-> <<>>,
     has_transcript |-> FALSE, transcript |-> None]

\* M1old started ten days before now and lasted no time; M2 has no start time
WindowMeetings == {TwoDaysAgo, ThreeDaysAgo, Tomorrow, M1old, M2}

WindowSources == {s \in SeqsUpTo(WindowMeetings, MaxLen) : Distinct(s)}

Jan09Noon == Jan09 \o <<" ", "1", "2", ":", "0", "0", ":", "0", "0">>

\* the date bounds the tools are called with
WindowDates ==
    {NoArguments,
     [from_date |-> DefaultWindow],
     [from_date |-> TwoWeeks],
     [to_date |-> Jan09],
     [to_date |-> Jan09Noon],
     [from_date |-> Dec31, to_date |-> Jan09],
     [from_date |-> Jan09, to_date |-> Jan09Noon],
     [from_date |-> Jan09, to_date |-> Dec31],
     [from_date |-> Malformed]}

\* the arguments a with one more, k = v
With(a, k, v) == [x \in DOMAIN a \cup {k} |-> IF x = k THEN v ELSE a[x]]

\* _filter_meetings_by_date on the records at hand
FilterByDate ==
    /\ \E a \in WindowDates :
          last' = [tool |-> "_filter_meetings_by_date", arguments |-> a,
                   outcome |-> _filter_meetings_by_date(source, Opt(a, "from_date"),
                                                        Opt(a, "to_date"))]
    /\ parserCalls' = <<>>
    /\ UNCHANGED <<source, fault, cache, now>>

\* the bounds the tools other than search_meetings are called with
FewDates ==
    {NoArguments, [from_date |-> DefaultWindow], [to_date |-> Jan09],
     [from_date |-> Dec31, to_date |-> Jan09]}

SearchDated ==
    \E a \in WindowDates \cup {[query |-> <<"e">>]} : Call("search_meetings", a)
ListDated == \E a \in FewDates : Call("list_meetings", a)
ParticipantsDated == \E a \in FewDates : Call("list_participants", a)
StatisticsDated ==
    \E a \in {With(d, "stat_type", "summary") : d \in FewDates}
                \cup {[stat_type |-> "duration"]} :
        Call("get_statistics", a)
PatternsDated ==
    \E a \in FewDates : Call("analyze_patterns", With(a, "pattern_type", "time"))

WindowInit ==
    /\ source \in WindowSources
    /\ fault = "none"
    /\ cache = None
    /\ now = <<StartDay, 43200>>
    /\ parserCalls = <<>>
    /\ last = NoCall

WindowNext ==
    \/ FilterByDate
    \/ SearchDated
    \/ ListDated
    \/ ParticipantsDated
    \/ StatisticsDated
    \/ PatternsDated

WindowSpec == WindowInit /\ [][WindowNext]_vars

------------------------------------------------------------------------------
(* The claims on date filtering *)

Filtered == last.tool = "_filter_meetings_by_date"

DatesGiven(arguments) == DOMAIN arguments \cap {"from_date", "to_date"} # {}

\* the k-th smallest member of a set of positions
Nth(S, k) == CHOOSE i \in S : Cardinality({j \in S : j <= i}) = k

\* the positions of the records that start within [lo, hi]
Within(meetings, lo, hi) ==
    {i \in DOMAIN meetings :
        /\ meetings[i].start_time # None
        /\ NotLater(lo, Get(meetings[i].start_time))
        /\ NotLater(Get(meetings[i].start_time), hi)}

\* the bounds the last call's date arguments resolve to
ResolvedBounds ==
    DateBounds(Opt(last.arguments, "from_date"), Opt(last.arguments, "to_date")).value

\* C11: with bounds resolved to [lo, hi] the date filter returns exactly the
\* records that have a start_time with lo <= start_time <= hi, in the order they
\* had; a record without a start_time is never among them.
C11_FilterKeepsExactlyTheRange ==
    (Filtered /\ DatesGiven(last.arguments) /\ last.outcome.raised = "")
      => /\ Len(last.outcome.meetings)
              = Cardinality(Within(source, ResolvedBounds[1], ResolvedBounds[2]))
         /\ \A k \in DOMAIN last.outcome.meetings :
              last.outcome.meetings[k]
                 = source[Nth(Within(source, ResolvedBounds[1], ResolvedBounds[2]), k)]
         /\ \A k \in DOMAIN last.outcome.meetings :
              last.outcome.meetings[k].start_time # None

\* the filter has just kept a record that starts exactly on a bound and dropped
\* a record without a start time and one outside the bounds
C11_Witness ==
    /\ Filtered
    /\ DatesGiven(last.arguments)
    /\ last.outcome.raised = ""
    /\ Len(source) = MaxLen
    /\ Len(last.outcome.meetings) = 1
    /\ Get(last.outcome.meetings[1].start_time) \in Range(ResolvedBounds)
    /\ \E i \in DOMAIN source : source[i].start_time = None

\* search_meetings or list_meetings has just returned
Listing == last.tool \in {"search_meetings", "list_meetings"} /\ last.outcome.kind = "ok"

\* the ids of the records a list result holds
ListedIds == {last.outcome.value.meetings[k].id : k \in DOMAIN last.outcome.value.meetings}

Cached(m) == cache # None /\ m \in Range(Get(cache))

\* C12: search_meetings and list_meetings called without date bounds return the
\* record that started two days before now and not the one that started ten days
\* before it, and report from_date = "3d" in filters_applied; a bound that is
\* supplied is used, and reported, in its place.
C12_DefaultWindowIsThreeDays ==
    Listing =>
        IF ~DatesGiven(last.arguments)
        THEN /\ last.outcome.value.filters_applied.from_date = Some(<<"3", "d">>)
             /\ last.outcome.value.filters_applied.to_date = None
             /\ (Cached(TwoDaysAgo) /\ last.arguments = NoArguments) => "w2" \in ListedIds
             /\ "m1" \notin ListedIds
        ELSE /\ last.outcome.value.filters_applied.from_date
                    = Opt(last.arguments, "from_date")
             /\ last.outcome.value.filters_applied.to_date = Opt(last.arguments, "to_date")
             /\ (Cached(M1old) /\ last.arguments \in {[from_date |-> TwoWeeks],
                                                       [to_date |-> Jan09]})
                    => "m1" \in ListedIds

\* a call without date bounds has just returned the two-day-old record and left
\* out the ten-day-old one
C12_Witness ==
    /\ Listing
    /\ last.arguments = NoArguments
    /\ Cached(TwoDaysAgo)
    /\ Cached(M1old)
    /\ ListedIds = {"w2"}
    /\ last.outcome.value.filters_applied.from_date = Some(DefaultWindow)

\* C13, as stated: without date bounds, a record that starts after now is not
\* excluded by the default window.
C13_AsStated ==
    (Listing /\ last.arguments = NoArguments /\ Cached(Tomorrow)) => "w4" \in ListedIds

\* C13, amended: the default window has both ends, [now - 3 days, now]: without
\* date bounds search_meetings and list_meetings return exactly the records that
\* start within it, so a record that starts after now is excluded.
C13_DefaultWindowEndsNow ==
    (Listing /\ last.arguments = NoArguments)
      => ListedIds = {Get(cache)[i].id :
                         i \in Within(Get(cache), <<now[1] - 3, now[2]>>, now)}

\* a call without date bounds has just left out the record that starts tomorrow
\* and returned the one on the lower edge of the window
C13_Witness ==
    /\ Listing
    /\ last.arguments = NoArguments
    /\ Cached(Tomorrow)
    /\ Cached(ThreeDaysAgo)
    /\ ListedIds = {"w3"}

RECURSIVE SumOver(_, _)
\* the sum of f over a finite set
SumOver(S, f) ==
    IF S = {} THEN 0
    ELSE LET x == CHOOSE x \in S : TRUE IN f[x] + SumOver(S \ {x}, f)

\* the tools that take optional date bounds, and how many records the last call
\* of one worked on, as its result shows it: dated records for the time patterns
\* (one count per start hour), records for the others
DateTools ==
    {"search_meetings", "list_meetings", "list_participants", "get_statistics",
     "analyze_patterns"}

Counted ==
    /\ last.tool \in DateTools
    /\ last.outcome.kind = "ok"
    /\ last.tool = "get_statistics" => last.arguments.stat_type = "summary"

WorkedOn ==
    IF last.tool \in {"search_meetings", "list_meetings"}
    THEN last.outcome.value.total_found
    ELSE IF last.tool = "list_participants"
    THEN last.outcome.value.total_meetings_analyzed
    ELSE IF last.tool = "get_statistics"
    THEN last.outcome.value.total_meetings
    ELSE SumOver(last.outcome.value.hourly_patterns,
                 [c \in last.outcome.value.hourly_patterns |-> c[2]])

\* how many of the records the tool counts lie at the positions S of the cache
Expected(S) ==
    IF last.tool = "analyze_patterns"
    THEN Cardinality({i \in S : Get(cache)[i].start_time # None})
    ELSE Cardinality(S)

DefaultWindowOf(meetings) == Within(meetings, <<now[1] - 3, now[2]>>, now)

\* C14, as stated: each of the five tools, called without date bounds, works on
\* the records of the three-day window only.
C14_AsStated ==
    (Counted /\ DOMAIN last.arguments \subseteq {"stat_type", "pattern_type"})
      => WorkedOn = Expected(DefaultWindowOf(Get(cache)))

\* C14, amended: called without date bounds, search_meetings and list_meetings
\* work on the records of the three-day window only, while list_participants,
\* get_statistics and analyze_patterns apply no default and work on the whole
\* record set.
C14_OnlySearchAppliesDefault ==
    (Counted /\ DOMAIN last.arguments \subseteq {"stat_type", "pattern_type"})
      => WorkedOn = IF last.tool \in {"search_meetings", "list_meetings"}
                    THEN Expected(DefaultWindowOf(Get(cache)))
                    ELSE Expected(DOMAIN Get(cache))

\* one of the three other tools has just worked on a record older than the window
C14_Witness ==
    /\ Counted
    /\ last.tool \notin {"search_meetings", "list_meetings"}
    /\ DOMAIN last.arguments \subseteq {"stat_type", "pattern_type"}
    /\ Cached(M1old)
    /\ Cached(TwoDaysAgo)
    /\ WorkedOn = 2

\* C16: a bare date as to_date covers its whole day, with or without a
\* from_date: the record that starts at noon of 2025-01-09 is kept when to_date
\* is "2025-01-09".
C16_BareToDateCoversItsDay ==
    (Listing /\ Cached(TwoDaysAgo)
       /\ last.arguments \in {[to_date |-> Jan09], [from_date |-> Dec31, to_date |-> Jan09]})
      => "w2" \in ListedIds

\* a record has a known duration when it has one at all, zero included
KnownDurations == {i \in DOMAIN Get(cache) : Get(cache)[i].duration # None}

\* C20: the five counts of duration_distribution sum to the number of records
\* with a known duration, those of duration zero included.
C20_DistributionCountsKnownDurations ==
    (/\ last.tool = "get_statistics"
     /\ last.arguments = [stat_type |-> "duration"]
     /\ last.outcome.kind = "ok"
     /\ KnownDurations # {})
      => /\ "duration_distribution" \in DOMAIN last.outcome.value
         /\ SumOver(DurationBuckets, last.outcome.value.duration_distribution)
               = Cardinality(KnownDurations)

------------------------------------------------------------------------------
(* The statistics and the pattern analysis over larger record sets: sets of  *)
(* up to MaxRecords records of which some have a start time and a duration,  *)
(* and MaxTeams meetings of three participants each.                         *)

\* the most records a generated record set holds
MaxRecords == 7
\* the number of meetings of three that share no participant
MaxTeams == 4

\* the participant "p<i>"
Name(i) == <<"p">> \o Digits(i)

RecordIds == <<"r1", "r2", "r3", "r4", "r5", "r6", "r7", "r8", "r9">>

\* a record with no title, summary, tags or transcript
Rec(id, start_time, duration, participants) ==
    [id |-> id, title |-> None, start_time |-> start_time, duration |-> duration,
     participants |-> participants, summary |-> None, tags |-> <<>>,
     has_transcript |-> FALSE, transcript |-> None]

\* what the records that do not have both a start time and a duration lack
Kinds == {"undated", "untimed", "instant"}

\* the i-th record of a set whose first q records have a start time and a
\* duration; later records start later, and last longer
Generated(i, q, kind) ==
    IF i <= q
    THEN Rec(RecordIds[i], Some(<<i, 43200>>), Some(600 * i), <<Name(i)>>)
    ELSE IF kind = "undated" THEN Rec(RecordIds[i], None, None, <<Name(i)>>)
    ELSE IF kind = "untimed" THEN Rec(RecordIds[i], Some(<<i, 43200>>), None, <<Name(i)>>)
    ELSE Rec(RecordIds[i], Some(<<i, 43200>>), Some(0), <<Name(i)>>)

GeneratedSources ==
    {[i \in 1..total |-> Generated(i, q, kind)] :
        total \in 0..MaxRecords, q \in 0..MaxRecords, kind \in Kinds}

\* a meeting of the participants p1 .. pn
Crowd(id, n) == Rec(id, Some(<<1, 43200>>), Some(1800), [i \in 1..n |-> Name(i)])

\* the i-th of the meetings of three that share no participant
Team(i) ==
    Rec(RecordIds[i], Some(<<i, 43200>>), Some(1800),
        <<Name(3 * i - 2), Name(3 * i - 1), Name(3 * i)>>)

\* the teams, and a last meeting of two members of the second team
Teams ==
    [i \in 1..MaxTeams |-> Team(i)]
        \o <<Rec(RecordIds[MaxTeams + 1], None, None, <<Name(5), Name(4)>>)>>

CrowdSources ==
    {Teams,
     <<Crowd("r1", 3)>>,
     <<Crowd("r1", 1), Crowd("r2", 2)>>,
     <<Crowd("r1", 3), Rec("r2", None, None, <<Name(3), Name(2)>>), Crowd("r3", 0)>>,
     <<Rec("r1", None, None, <<Name(1), Name(1), Name(2)>>)>>}

AnalysisSources == GeneratedSources \cup CrowdSources

\* no bounds, and bounds that keep no record: the whole of 2024-12-31
AnalysisDates == {NoArguments, [from_date |-> Dec31, to_date |-> Dec31]}

StatisticsOn ==
    \E t \in StatTypes, d \in AnalysisDates : Call("get_statistics", With(d, "stat_type", t))
PatternsOn ==
    \E t \in PatternTypes, d \in AnalysisDates :
        Call("analyze_patterns", With(d, "pattern_type", t))
ListOn == \E d \in AnalysisDates : Call("list_meetings", d)
SearchOn ==
    \E d \in AnalysisDates : Call("search_meetings", With(d, "participant", <<"P">>))
ParticipantsOn == \E d \in AnalysisDates : Call("list_participants", d)
RecentOn == \E n \in {1, 2, 3, 100} : Call("get_recent_meetings", [count |-> n])

AnalysisInit ==
    /\ source \in AnalysisSources
    /\ fault = "none"
    /\ cache = None
    /\ now = <<StartDay, 43200>>
    /\ parserCalls = <<>>
    /\ last = NoCall

AnalysisNext ==
    \/ StatisticsOn
    \/ PatternsOn
    \/ ListOn
    \/ SearchOn
    \/ ParticipantsOn
    \/ RecentOn

AnalysisSpec == AnalysisInit /\ [][AnalysisNext]_vars

------------------------------------------------------------------------------
(* The claims about the statistics and the pattern analysis *)

\* the records the date bounds of a call keep: without bounds all of them, and
\* with the bounds of AnalysisDates those that start on 2024-12-31
KeptBy(arguments) ==
    IF "from_date" \in DOMAIN arguments
    THEN SelectSeqBy(source, {m \in Range(source) :
                                 HasStart(m) /\ Get(m.start_time)[1] = DayNumber(Dec31)})
    ELSE source

StatisticsCalled(t) ==
    /\ last.tool = "get_statistics"
    /\ last.arguments.stat_type = t
    /\ last.outcome.kind = "ok"
PatternsCalled(t) ==
    /\ last.tool = "analyze_patterns"
    /\ last.arguments.pattern_type = t
    /\ last.outcome.kind = "ok"

\* how often p is listed as a participant of the meetings
Participations(meetings, p) ==
    Cardinality(UNION {{<<i, j>> : j \in {j \in DOMAIN meetings[i].participants :
                                               meetings[i].participants[j] = p}} :
                       i \in DOMAIN meetings})

\* how often the two names stand at two places of one participant list
Meetings2(meetings, p, q) ==
    Cardinality(UNION {{<<i, jk[1], jk[2]>> :
                           jk \in {jk \in (DOMAIN meetings[i].participants)
                                            \X (DOMAIN meetings[i].participants) :
                                       /\ jk[1] < jk[2]
                                       /\ {meetings[i].participants[jk[1]],
                                           meetings[i].participants[jk[2]]} = {p, q}}} :
                       i \in DOMAIN meetings})

Everyone(meetings) == UNION {Range(meetings[i].participants) : i \in DOMAIN meetings}

\* a list of at most TopCount entries, in non-increasing order of their counts
TopList(top) ==
    /\ Len(top) <= TopCount
    /\ \A i, j \in DOMAIN top : i < j => top[i][2] >= top[j][2]
    /\ Distinct([i \in DOMAIN top |-> top[i][1]])

\* the list holds keys with their counts, and no key it omits counts more than
\* one it lists; it is shorter than TopCount only if it omits nothing
Highest(top, keys, count(_)) ==
    /\ \A i \in DOMAIN top : top[i][1] \in keys /\ top[i][2] = count(top[i][1])
    /\ \A k \in keys \ {top[i][1] : i \in DOMAIN top} :
          /\ Len(top) = TopCount
          /\ \A i \in DOMAIN top : count(k) <= top[i][2]

TopParticipantsOf(meetings, top) ==
    LET count(p) == Participations(meetings, p)
    IN  TopList(top) /\ Highest(top, Everyone(meetings), count)

CountedPairs(meetings) ==
    {pq \in Everyone(meetings) \X Everyone(meetings) :
        ~TextLess(pq[2], pq[1]) /\ Meetings2(meetings, pq[1], pq[2]) > 0}

FrequentCollaborationsOf(meetings, top) ==
    LET count(pq) == Meetings2(meetings, pq[1], pq[2])
    IN  TopList(top) /\ Highest(top, CountedPairs(meetings), count)

\* C21: top_participants of the participant statistics and
\* frequent_collaborations of the participant pattern analysis hold at most 10
\* entries, in non-increasing order of count, and no participant or pair left
\* out has a greater count than one that is listed.
C21_TopListsAreTheHighestTen ==
    /\ (StatisticsCalled("participants") /\ "top_participants" \in DOMAIN last.outcome.value)
          => TopParticipantsOf(KeptBy(last.arguments), last.outcome.value.top_participants)
    /\ PatternsCalled("participants")
          => FrequentCollaborationsOf(KeptBy(last.arguments),
                                      last.outcome.value.frequent_collaborations)

\* both lists were cut to ten entries that are not all of one count
C21_Witness ==
    \/ /\ StatisticsCalled("participants")
       /\ "top_participants" \in DOMAIN last.outcome.value
       /\ Cardinality(Everyone(source)) > TopCount
       /\ Len(last.outcome.value.top_participants) = TopCount
       /\ last.outcome.value.top_participants[1][2]
             > last.outcome.value.top_participants[TopCount][2]
    \/ /\ PatternsCalled("participants")
       /\ Cardinality(CountedPairs(source)) > TopCount
       /\ Len(last.outcome.value.frequent_collaborations) = TopCount
       /\ last.outcome.value.frequent_collaborations[1][2]
             > last.outcome.value.frequent_collaborations[TopCount][2]

\* the time-pattern report of no record
NoPatterns(value) ==
    /\ value.hourly_patterns = {} /\ value.daily_patterns = {}
    /\ value.peak_hour = None /\ value.peak_day = None

\* the frequency report of no record
NoFrequency(value) ==
    /\ value.daily_frequency = {} /\ value.weekly_frequency = {}
    /\ value.monthly_frequency = {}
    /\ value.peak_day = None /\ value.peak_week = None /\ value.peak_month = None

NoDurationData == [error |-> "No duration data available"]
NoParticipantData == [error |-> "No participant data available"]

\* what a statistics type reports of no record
NoStatistics(stat_type, value) ==
    IF stat_type = "summary"
    THEN /\ value.total_meetings = 0
         /\ value.date_coverage = <<0, 0>> /\ value.duration_coverage = <<0, 0>>
         /\ value.transcript_coverage = <<0, 0>>
         /\ value.date_range = None /\ value.duration_statistics = None
         /\ value.participant_statistics.unique_participants = 0
    ELSE IF stat_type = "frequency" THEN NoFrequency(value)
    ELSE IF stat_type = "duration" THEN value = NoDurationData
    ELSE IF stat_type = "participants" THEN value = NoParticipantData
    ELSE NoPatterns(value)

\* what a pattern type reports of no record
NoAnalysis(pattern_type, value) ==
    IF pattern_type = "time" THEN NoPatterns(value)
    ELSE IF pattern_type = "frequency" THEN NoFrequency(value)
    ELSE IF pattern_type = "participants"
    THEN /\ value.participant_stats = NoParticipantData
         /\ value.frequent_collaborations = <<>>
         /\ value.collaboration_analysis.total_unique_pairs = 0
         /\ value.collaboration_analysis.most_frequent_pair = None
    ELSE /\ value.duration_stats = NoDurationData
         /\ value.trend_analysis = None

\* the call worked on no record: none is loaded, or its date bounds keep none
OnNothing == last.tool \in ToolNames /\ KeptBy(last.arguments) = <<>>

\* C22: on an empty record set (nothing loaded, or a date filter that keeps
\* nothing) every statistics type and every pattern type returns a result
\* with its empty or no-data marker and does not raise; the list and search
\* operations return an empty list with a count of zero.
C22_EmptyInputGivesNoDataMarkers ==
    OnNothing =>
        /\ last.outcome.kind = "ok"
        /\ last.tool = "get_statistics"
              => NoStatistics(last.arguments.stat_type, last.outcome.value)
        /\ last.tool = "analyze_patterns"
              => NoAnalysis(last.arguments.pattern_type, last.outcome.value)
        /\ last.tool \in {"list_meetings", "search_meetings", "get_recent_meetings"}
              => last.outcome.value.total_found = 0 /\ last.outcome.value.meetings = <<>>
        /\ last.tool = "list_participants"
              => /\ last.outcome.value.total_participants = 0
                 /\ last.outcome.value.participants = <<>>

\* the duration statistics of records that a date filter removed
C22_Witness ==
    /\ OnNothing
    /\ source # <<>>
    /\ StatisticsCalled("duration")
    /\ last.outcome.value = NoDurationData

\* in how many of the meetings with two participants or more both names appear
Together(meetings, p, q) ==
    Cardinality({i \in DOMAIN meetings :
                    /\ Len(meetings[i].participants) >= 2
                    /\ {p, q} \subseteq Range(meetings[i].participants)})

\* the unordered pairs of distinct participants that appear together
DistinctPairs(meetings) ==
    {pq \in SUBSET Everyone(meetings) :
        /\ Cardinality(pq) = 2
        /\ \E p, q \in pq : p # q /\ Together(meetings, p, q) > 0}

\* C23: each meeting with at least two participants counts every unordered
\* pair of distinct participants of it once and nothing else: no counted pair
\* is a participant with itself, the count of a pair is the number of meetings
\* in which both appear, and the pairs counted are the pairs of distinct
\* participants that appear together (k(k-1)/2 for one meeting of k).
C23_PairsAreOfDistinctParticipants ==
    PatternsCalled("participants") =>
        /\ \A i \in DOMAIN last.outcome.value.frequent_collaborations :
              LET entry == last.outcome.value.frequent_collaborations[i]
              IN  /\ entry[1][1] # entry[1][2]
                  /\ entry[2] = Together(KeptBy(last.arguments), entry[1][1], entry[1][2])
        /\ last.outcome.value.collaboration_analysis.total_unique_pairs
              = Cardinality(DistinctPairs(KeptBy(last.arguments)))

RecentCalled == last.tool = "get_recent_meetings" /\ last.outcome.kind = "ok"

\* the places of the records that have a start time
DatedPlaces == {k \in DOMAIN source : source[k].start_time # None}

\* entries of records that have a start time, none twice, the later start first
MostRecentFirst(entries) ==
    /\ \A i \in DOMAIN entries :
          \E k \in DatedPlaces : /\ entries[i].id = source[k].id
                                 /\ entries[i].start_time = source[k].start_time
    /\ Distinct([i \in DOMAIN entries |-> entries[i].id])
    /\ \A i, j \in DOMAIN entries :
          i < j => ~Before(Get(entries[i].start_time), Get(entries[j].start_time))

\* no record left out started after one that is listed
NoneMoreRecent(entries) ==
    \A k \in DatedPlaces :
        source[k].id \notin {entries[i].id : i \in DOMAIN entries}
            => \A i \in DOMAIN entries :
                  ~Before(Get(entries[i].start_time), Get(source[k].start_time))

\* C24: get_recent_meetings(count), for a count from 1 to 100, returns
\* min(count, number of records with a start time) entries, the most recent
\* first, none of them without a start time, no record left out being more
\* recent than one returned; total_found is the number of entries returned.
C24_RecentAreTheLatestCount ==
    RecentCalled =>
        /\ Len(last.outcome.value.meetings)
              = Min({last.arguments.count, Cardinality(DatedPlaces)})
        /\ last.outcome.value.total_found = Len(last.outcome.value.meetings)
        /\ MostRecentFirst(last.outcome.value.meetings)
        /\ NoneMoreRecent(last.outcome.value.meetings)

\* two entries or more, with a dated record left out and an undated one ignored
C24_Witness ==
    /\ RecentCalled
    /\ Len(last.outcome.value.meetings) = last.arguments.count
    /\ last.arguments.count >= 2
    /\ Cardinality(DatedPlaces) > last.arguments.count
    /\ DatedPlaces # DOMAIN source

\* how many of the records have both a start time and a duration
Qualifying(meetings) ==
    Cardinality({i \in DOMAIN meetings :
                    meetings[i].start_time # None /\ meetings[i].duration # None})

TrendComputed == last.outcome.value.trend_analysis # None

\* C26, as the claim states it: a trend is reported only when more than 5 of
\* the filtered records have both a start time and a duration.
C26_AsStated ==
    (PatternsCalled("duration") /\ TrendComputed)
        => Qualifying(KeptBy(last.arguments)) > TrendMinMeetings

\* C26: a trend is reported only when more than 5 records pass the filter and
\* more than 2 of them have both a start time and a duration.
C26_TrendNeedsSixRecordsThreeDated ==
    (PatternsCalled("duration") /\ TrendComputed)
        => /\ Len(KeptBy(last.arguments)) > TrendMinMeetings
           /\ Qualifying(KeptBy(last.arguments)) > TrendMinDated

\* a trend over six records or more of which no more than five qualify
C26_Witness ==
    /\ PatternsCalled("duration")
    /\ TrendComputed
    /\ Len(KeptBy(last.arguments)) > TrendMinMeetings
    /\ Qualifying(KeptBy(last.arguments)) <= TrendMinMeetings

------------------------------------------------------------------------------
(* search_meetings with its filters combined, on records whose title,        *)
(* summary, transcript and participants match different terms.               *)

Sync == <<"S", "y", "n", "c">>

\* yesterday; the title and the summary match
Kickoff ==
    [id |-> "k1", title |-> Some(Sync),
     start_time |-> Some(<<StartDay - 1, 43200>>), duration |-> Some(1800),
     participants |-> <<Al, Bo>>, summary |-> Some(<<"p", "l", "a", "n">>),
     tags |-> <<>>, has_transcript |-> FALSE, transcript |-> None]

\* five days ago: outside the default window; only the summary matches
Weekly ==
    [id |-> "k2", title |-> None,
     start_time |-> Some(<<StartDay - 5, 43200>>), duration |-> None,
     participants |-> <<Bo>>, summary |-> Some(<<"r", "e", " ", "s", "y", "n", "c">>),
     tags |-> <<>>, has_transcript |-> FALSE, transcript |-> None]

\* earlier today; only the transcript matches
Retro ==
    [id |-> "k3", title |-> Some(<<"D", "e", "m", "o">>),
     start_time |-> Some(<<StartDay, 3600>>), duration |-> Some(600),
     participants |-> <<Cy, Al>>, summary |-> None,
     tags |-> <<>>, has_transcript |-> TRUE,
     transcript |-> Some([full_text |-> <<"S", "Y", "N", "C", " ", "u", "p">>,
                          word_count |-> 2, speakers |-> <<Cy>>, segments |-> <<>>,
                          duration |-> None])]

\* no start time; the title matches
Loose ==
    [id |-> "k4", title |-> Some(<<"s", "y", "n", "c">>),
     start_time |-> None, duration |-> None,
     participants |-> <<Al>>, summary |-> None,
     tags |-> <<>>, has_transcript |-> FALSE, transcript |-> None]

SearchMeetingsSet == {Kickoff, Weekly, Retro, Loose}

\* the most records a searched record set holds
MaxSearched == 3

SearchSources == {s \in SeqsUpTo(SearchMeetingsSet, MaxSearched) : Distinct(s)}

OneWeek == <<"1", "w">>

Queries == {<<"S", "Y", "N", "C">>, <<"r", "e">>}
Terms == {<<"A", "L">>, <<"o">>}

\* the arguments with the key, for each of the values, and without it
WithAny(args, k, values) == args \cup UNION {{With(a, k, v) : v \in values} : a \in args}

\* every combination of the four filters, and an empty query and a limit of
\* zero, which count as not given
SearchCalls ==
    WithAny(WithAny(WithAny(WithAny({NoArguments}, "from_date", {OneWeek}),
                            "participant", Terms),
                    "query", Queries),
            "limit", {1})
        \cup {[query |-> <<>>, from_date |-> OneWeek],
              [participant |-> <<"A", "L">>, from_date |-> OneWeek, limit |-> 0]}

SearchCombined == \E a \in SearchCalls : Call("search_meetings", a)

SearchInit ==
    /\ source \in SearchSources
    /\ fault = "none"
    /\ cache = None
    /\ now = <<StartDay, 43200>>
    /\ parserCalls = <<>>
    /\ last = NoCall

SearchNext == SearchCombined

SearchSpec == SearchInit /\ [][SearchNext]_vars

\* one letter, whatever its case
SameLetter(a, b) ==
    a = b \/ \E i \in DOMAIN UpperCase : {a, b} = {UpperCase[i], LowerCase[i]}

\* the term occurs in the text, the case of letters not counting
Occurs(term, text) ==
    \E k \in 0..(Len(text) - Len(term)) :
        \A i \in DOMAIN term : SameLetter(term[i], text[k + i])

Given(arguments, k) == k \in DOMAIN arguments /\ arguments[k] # <<>>

\* the number of days the date range of the call reaches back from now
DaysBack(arguments) == IF Given(arguments, "from_date") THEN 7 ELSE 3

InDateRange(m, arguments) ==
    /\ m.start_time # None
    /\ NotLater(<<now[1] - DaysBack(arguments), now[2]>>, Get(m.start_time))
    /\ NotLater(Get(m.start_time), now)

HasParticipant(m, term) == \E i \in DOMAIN m.participants : Occurs(term, m.participants[i])

Mentions(m, query) ==
    \/ m.title # None /\ Occurs(query, Get(m.title))
    \/ m.summary # None /\ Occurs(query, Get(m.summary))
    \/ m.transcript # None /\ Occurs(query, Get(m.transcript).full_text)

\* the places of the records that satisfy every predicate the call supplies
Satisfying(arguments) ==
    {i \in DOMAIN source :
        /\ InDateRange(source[i], arguments)
        /\ Given(arguments, "participant") => HasParticipant(source[i], arguments.participant)
        /\ Given(arguments, "query") => Mentions(source[i], arguments.query)}

\* how many of n records a limit lets through
Allowed(arguments, n) ==
    IF "limit" \in DOMAIN arguments /\ arguments.limit > 0 /\ arguments.limit < n
    THEN arguments.limit ELSE n

SearchCalled == last.tool = "search_meetings" /\ last.outcome.kind = "ok"

\* C25: the result of search_meetings is the records that start within the
\* date range (the default window when no bound is given), have a participant
\* containing the participant term and mention the query in the title, the
\* summary or the transcript, letter case not counting; each is listed once,
\* in the order of the record set, the limit is applied last and keeps the
\* first `limit` of them when it is positive, and total_found is their number.
C25_SearchIsTheConjunctionThenTheLimit ==
    SearchCalled =>
        /\ Len(last.outcome.value.meetings)
              = Allowed(last.arguments, Cardinality(Satisfying(last.arguments)))
        /\ \A k \in DOMAIN last.outcome.value.meetings :
              last.outcome.value.meetings[k].id
                 = source[Nth(Satisfying(last.arguments), k)].id
        /\ last.outcome.value.total_found = Len(last.outcome.value.meetings)

\* all four arguments given, two records satisfy them and the limit keeps the first
C25_Witness ==
    /\ SearchCalled
    /\ DOMAIN last.arguments = {"from_date", "participant", "query", "limit"}
    /\ last.arguments.query # <<>>
    /\ Cardinality(Satisfying(last.arguments)) = 2
    /\ Satisfying(last.arguments) # DOMAIN source
    /\ Len(last.outcome.value.meetings) = 1

------------------------------------------------------------------------------
(* The first load *)

\* the call ended with the error of a load that failed
LoadFailed(call) ==
    /\ call.outcome.kind = "MCPToolError"
    /\ call.outcome.value = None
    /\ call.outcome.msg # <<>>
    /\ call.outcome.msg[Len(call.outcome.msg)] = "Failed to load meetings"

\* C27: a handler called while nothing is cached tries the load; when the
\* record source cannot be read the call fails with a tool error and the cache
\* stays not loaded, so the failure is not kept and the next call tries again;
\* when the source can be read (again) the call loads what the source holds and
\* does not fail on the load; no step leaves in the cache anything but what was
\* cached before or what a load that succeeded has read in that step.
C27_FailedLazyLoadIsNotCached ==
    [][/\ (cache = None /\ last'.tool \in Handlers /\ Ran(last'))
            => /\ parserCalls' = <<"get_meetings">>
               /\ IF fault # "none"
                  THEN LoadFailed(last') /\ cache' = None
                  ELSE ~LoadFailed(last') /\ cache' = Some(source)
       /\ cache' \in {cache} \cup (IF fault = "none" THEN {Some(source)} ELSE {})]_vars

\* a handler has just tried the first load on a record source that cannot be
\* read, and has failed; nothing is cached
C27_Witness ==
    /\ last.tool \in Handlers
    /\ LoadFailed(last)
    /\ fault # "none"
    /\ cache = None
    /\ parserCalls = <<"get_meetings">>

====
